---- MODULE Spec2Model ----
(***************************************************************************)
(* Model of bible_lsp: the reference-segment parser and its labeling       *)
(* function (book_reference_segment.rs), the corpus bounds queries         *)
(* (bible_api.rs), the autocompletion state inference (bible_lsp.rs), the  *)
(* completion candidate generator (autocompletion.rs), the scanner with    *)
(* its position computation (bible_lsp.rs), the regex cache (bible_api.rs),*)
(* the document store (main.rs) and the rendering of segment contents      *)
(* (book_reference.rs).                                                    *)
(*                                                                         *)
(* Text is a sequence of one-character strings.  Regular expressions of    *)
(* re.rs are modelled by operators that compute the same leftmost-first    *)
(* matches on such sequences.                                              *)
(***************************************************************************)
EXTENDS Integers, Sequences, FiniteSets, TLC

(***************************************************************************)
(* Bounds of the model                                                     *)
(***************************************************************************)
\* longest segment text typed in the parser specification
MaxSegLen == 7
\* most characters typed after did_open in the completion specification
MaxTailLen == 3
\* largest chapter number asked of the bounds queries
MaxChapter == 4
\* largest verse number asked of the bounds queries
MaxVerse == 4

(***************************************************************************)
(* Characters                                                              *)
(***************************************************************************)
\* U+2013, the en-dash
EnDash == "u2013"
\* the three characters U+00E2 U+20AC U+201C that book_reference_segment.rs:221
\* replaces by "-"
MojibakeDash == <<"u00E2", "u20AC", "u201C">>
\* the three characters U+014C U+0106 U+014D that the character classes of
\* re.rs contain after "\-"
MojibakeClass == {"u014C", "u0106", "u014D"}

DigitChars == {"0", "1", "2", "3", "4", "5", "6", "7", "8", "9"}
LetterChars == {"e", "j", "x"}

IsDigit(c) == c \in DigitChars

\* \w of the regex crate, on the characters of the model
IsWordChar(c) == c \in DigitChars \cup LetterChars \cup MojibakeClass \cup {"u00E2"}

DigitVal(c) ==
    CASE c = "0" -> 0 [] c = "1" -> 1 [] c = "2" -> 2 [] c = "3" -> 3
      [] c = "4" -> 4 [] c = "5" -> 5 [] c = "6" -> 6 [] c = "7" -> 7
      [] c = "8" -> 8 [] c = "9" -> 9

DigitChar(d) ==
    CASE d = 0 -> "0" [] d = 1 -> "1" [] d = 2 -> "2" [] d = 3 -> "3"
      [] d = 4 -> "4" [] d = 5 -> "5" [] d = 6 -> "6" [] d = 7 -> "7"
      [] d = 8 -> "8" [] d = 9 -> "9"

(***************************************************************************)
(* Sequence helpers                                                        *)
(***************************************************************************)
Last(s) == s[Len(s)]

\* s[from..], 1-based
Suffix(s, from) == SubSeq(s, from, Len(s))

\* s[..to], 1-based inclusive
Prefix(s, to) == SubSeq(s, 1, to)

RECURSIVE Filter(_, _)
Filter(s, keep) ==
    IF s = <<>> THEN <<>>
    ELSE IF Head(s) \in keep THEN <<Head(s)>> \o Filter(Tail(s), keep)
    ELSE Filter(Tail(s), keep)

\* index of the first character of s that satisfies the set, 0 when none
FirstIndexIn(s, set) ==
    IF \E i \in 1..Len(s) : s[i] \in set
    THEN CHOOSE i \in 1..Len(s) : s[i] \in set /\ \A j \in 1..(i - 1) : s[j] \notin set
    ELSE 0

\* index of the last character of s that satisfies the set, 0 when none
LastIndexIn(s, set) ==
    IF \E i \in 1..Len(s) : s[i] \in set
    THEN CHOOSE i \in 1..Len(s) : s[i] \in set /\ \A j \in (i + 1)..Len(s) : s[j] \notin set
    ELSE 0

(***************************************************************************)
(* Numbers: str::parse::<usize>() and format!("{}")                        *)
(***************************************************************************)
None == -1

RECURSIVE DecimalValue(_, _)
DecimalValue(s, acc) ==
    IF s = <<>> THEN acc ELSE DecimalValue(Tail(s), 10 * acc + DigitVal(Head(s)))

\* str::parse::<usize>(): Err (None) on the empty string and on any non-digit
ParseUsize(s) ==
    IF s = <<>> \/ \E i \in 1..Len(s) : ~IsDigit(s[i]) THEN None
    ELSE DecimalValue(s, 0)

RECURSIVE FormatUsize(_)
FormatUsize(n) ==
    IF n < 10 THEN <<DigitChar(n)>>
    ELSE Append(FormatUsize(n \div 10), DigitChar(n % 10))

(***************************************************************************)
(* Segments (book_reference_segment.rs)                                    *)
(***************************************************************************)
ChapterVerse(chapter, verse) ==
    [type |-> "ChapterVerse", chapter |-> chapter, verse |-> verse]

ChapterRange(chapter, start_verse, end_verse) ==
    [type |-> "ChapterRange", chapter |-> chapter,
     start_verse |-> start_verse, end_verse |-> end_verse]

BookRange(start_chapter, end_chapter, start_verse, end_verse) ==
    [type |-> "BookRange", start_chapter |-> start_chapter, end_chapter |-> end_chapter,
     start_verse |-> start_verse, end_verse |-> end_verse]

get_starting_verse(seg) ==
    IF seg.type = "ChapterVerse" THEN seg.verse ELSE seg.start_verse

get_starting_chapter(seg) ==
    IF seg.type = "BookRange" THEN seg.start_chapter ELSE seg.chapter

get_ending_verse(seg) ==
    IF seg.type = "ChapterVerse" THEN seg.verse ELSE seg.end_verse

get_ending_chapter(seg) ==
    IF seg.type = "BookRange" THEN seg.end_chapter ELSE seg.chapter

(***************************************************************************)
(* The regular expressions of re.rs used by the parser                     *)
(***************************************************************************)
\* str::replace of the three-character sequence of line 221 by "-"
RECURSIVE replace_dash(_)
replace_dash(s) ==
    IF s = <<>> THEN <<>>
    ELSE IF Len(s) >= 3 /\ SubSeq(s, 1, 3) = MojibakeDash
         THEN <<"-">> \o replace_dash(Suffix(s, 4))
    ELSE <<Head(s)>> \o replace_dash(Tail(s))

\* the characters [^\d,:;-] does not match
SegmentTextChars == DigitChars \cup {",", ":", ";", "-"}

\* re::non_segment_characters().replace_all(input, "")
non_segment_characters_removed(s) == Filter(s, SegmentTextChars)

\* the input with one trailing non-digit removed, not the whole run
trailing_non_digits_removed_OnlyOne(s) ==
    IF s # <<>> /\ ~IsDigit(Last(s)) THEN Prefix(s, Len(s) - 1) ELSE s

\* re::trailing_non_digits().replace_all(input, "")
trailing_non_digits_removed(s) == Prefix(s, LastIndexIn(s, DigitChars))

\* re::segment_splitters().split(input): empty pieces are kept
RECURSIVE segment_splitters_split(_)
segment_splitters_split(s) ==
    LET i == FirstIndexIn(s, {",", ";"})
    IN  IF i = 0 THEN <<s>>
        ELSE <<Prefix(s, i - 1)>> \o segment_splitters_split(Suffix(s, i + 1))

\* str::split_once(c): the text before and after the first c
split_once(s, c) ==
    LET i == FirstIndexIn(s, {c})
    IN  IF i = 0 THEN [some |-> FALSE, left |-> <<>>, right |-> <<>>]
        ELSE [some |-> TRUE, left |-> Prefix(s, i - 1), right |-> Suffix(s, i + 1)]

(***************************************************************************)
(* parse_reference_segments                                                *)
(***************************************************************************)
\* the result of a call that hit .expect(DIGITS_ONLY_MSG) on an Err
Panic == [ok |-> FALSE, panic |-> TRUE, segments |-> <<>>]

Returned(segs) == [ok |-> TRUE, panic |-> FALSE, segments |-> segs]

\* parse_range with the `v1 - ch2:v2` arm reading `chapter` after its update
parse_range_StartAfterUpdate(range, chapter) ==
    LET dash == split_once(range, "-")
        l == split_once(dash.left, ":")
        r == split_once(dash.right, ":")
        c == split_once(range, ":")
        Step(nums, seg, ch) ==
            [ok |-> \A i \in 1..Len(nums) : nums[i] # None, seg |-> seg, chapter |-> ch]
    IN  IF dash.some
        THEN IF l.some /\ r.some
             THEN LET ch1 == ParseUsize(l.left)   v1 == ParseUsize(l.right)
                      ch2 == ParseUsize(r.left)   v2 == ParseUsize(r.right)
                  IN  Step(<<ch1, v1, ch2, v2>>, BookRange(ch1, ch2, v1, v2), ch2)
             ELSE IF l.some
             THEN LET ch1 == ParseUsize(l.left)   v1 == ParseUsize(l.right)
                      v2 == ParseUsize(dash.right)
                  IN  Step(<<ch1, v1, v2>>, ChapterRange(ch1, v1, v2), ch1)
             ELSE IF r.some
             THEN LET v1 == ParseUsize(dash.left)
                      ch2 == ParseUsize(r.left)   v2 == ParseUsize(r.right)
                  IN  Step(<<v1, ch2, v2>>, BookRange(ch2, ch2, v1, v2), ch2)
             ELSE LET v1 == ParseUsize(dash.left)  v2 == ParseUsize(dash.right)
                  IN  Step(<<v1, v2>>, ChapterRange(chapter, v1, v2), chapter)
        ELSE IF c.some
             THEN LET ch == ParseUsize(c.left)   v == ParseUsize(c.right)
                  IN  Step(<<ch, v>>, ChapterVerse(ch, v), ch)
             ELSE LET v == ParseUsize(range)
                  IN  Step(<<v>>, ChapterVerse(chapter, v), chapter)

\* one iteration of the loop of lines 238-299: the segment pushed and the
\* value of `chapter` after it; ok is FALSE when a number does not parse
parse_range(range, chapter) ==
    LET dash == split_once(range, "-")
        l == split_once(dash.left, ":")
        r == split_once(dash.right, ":")
        c == split_once(range, ":")
        Step(nums, seg, ch) ==
            [ok |-> \A i \in 1..Len(nums) : nums[i] # None, seg |-> seg, chapter |-> ch]
    IN  IF dash.some
        THEN IF l.some /\ r.some
             THEN LET ch1 == ParseUsize(l.left)   v1 == ParseUsize(l.right)
                      ch2 == ParseUsize(r.left)   v2 == ParseUsize(r.right)
                  IN  Step(<<ch1, v1, ch2, v2>>, BookRange(ch1, ch2, v1, v2), ch2)
             ELSE IF l.some
             THEN LET ch1 == ParseUsize(l.left)   v1 == ParseUsize(l.right)
                      v2 == ParseUsize(dash.right)
                  IN  Step(<<ch1, v1, v2>>, ChapterRange(ch1, v1, v2), ch1)
             ELSE IF r.some
             THEN LET v1 == ParseUsize(dash.left)
                      ch2 == ParseUsize(r.left)   v2 == ParseUsize(r.right)
                  IN  Step(<<v1, ch2, v2>>, BookRange(chapter, ch2, v1, v2), ch2)
             ELSE LET v1 == ParseUsize(dash.left)  v2 == ParseUsize(dash.right)
                  IN  Step(<<v1, v2>>, ChapterRange(chapter, v1, v2), chapter)
        ELSE IF c.some
             THEN LET ch == ParseUsize(c.left)   v == ParseUsize(c.right)
                  IN  Step(<<ch, v>>, ChapterVerse(ch, v), ch)
             ELSE LET v == ParseUsize(range)
                  IN  Step(<<v>>, ChapterVerse(chapter, v), chapter)

RECURSIVE parse_ranges(_, _, _)

\* the loop with `chapter` never carried from one range to the next
parse_ranges_ChapterNotCarried(ranges, chapter, segments) ==
    IF ranges = <<>> THEN Returned(segments)
    ELSE LET step == parse_range(Head(ranges), chapter)
         IN  IF ~step.ok THEN Panic
             ELSE parse_ranges(Tail(ranges), chapter, Append(segments, step.seg))

\* the loop with a cross-chapter range leaving its start chapter in `chapter`
parse_ranges_StartChapterKept(ranges, chapter, segments) ==
    IF ranges = <<>> THEN Returned(segments)
    ELSE LET step == parse_range(Head(ranges), chapter)
         IN  IF ~step.ok THEN Panic
             ELSE parse_ranges(Tail(ranges), get_starting_chapter(step.seg),
                               Append(segments, step.seg))

parse_ranges(ranges, chapter, segments) ==
    IF ranges = <<>> THEN Returned(segments)
    ELSE LET step == parse_range(Head(ranges), chapter)
         IN  IF ~step.ok THEN Panic
             ELSE parse_ranges(Tail(ranges), step.chapter, Append(segments, step.seg))

\* the `ranges` of line 234
parse_input_ranges(segment_input) ==
    segment_splitters_split(
        trailing_non_digits_removed(
            non_segment_characters_removed(replace_dash(segment_input))))

parse_reference_segments(segment_input) ==
    parse_ranges(parse_input_ranges(segment_input), 1, <<>>)

(***************************************************************************)
(* BookReferenceSegments::label                                            *)
(***************************************************************************)
\* label_segment with is_none_or in place of is_some_and
label_segment_NoneOr(seg, previous_chapter) ==
    LET short == previous_chapter = None \/ previous_chapter = get_starting_chapter(seg)
    IN  IF seg.type = "ChapterVerse"
        THEN IF short THEN FormatUsize(seg.verse)
             ELSE FormatUsize(seg.chapter) \o <<":">> \o FormatUsize(seg.verse)
        ELSE IF seg.type = "ChapterRange"
        THEN IF short THEN FormatUsize(seg.start_verse) \o <<"-">> \o FormatUsize(seg.end_verse)
             ELSE FormatUsize(seg.chapter) \o <<":">> \o FormatUsize(seg.start_verse)
                    \o <<"-">> \o FormatUsize(seg.end_verse)
        ELSE IF short
             THEN FormatUsize(seg.start_verse) \o <<"-">> \o FormatUsize(seg.end_chapter)
                    \o <<":">> \o FormatUsize(seg.end_verse)
             ELSE FormatUsize(seg.start_chapter) \o <<":">> \o FormatUsize(seg.start_verse)
                    \o <<"-">> \o FormatUsize(seg.end_chapter) \o <<":">> \o FormatUsize(seg.end_verse)

\* next_seg of lines 81-117; previous_chapter is None before the first segment
label_segment(seg, previous_chapter) ==
    LET short == previous_chapter # None /\ previous_chapter = get_starting_chapter(seg)
    IN  IF seg.type = "ChapterVerse"
        THEN IF short THEN FormatUsize(seg.verse)
             ELSE FormatUsize(seg.chapter) \o <<":">> \o FormatUsize(seg.verse)
        ELSE IF seg.type = "ChapterRange"
        THEN IF short THEN FormatUsize(seg.start_verse) \o <<"-">> \o FormatUsize(seg.end_verse)
             ELSE FormatUsize(seg.chapter) \o <<":">> \o FormatUsize(seg.start_verse)
                    \o <<"-">> \o FormatUsize(seg.end_verse)
        ELSE IF short
             THEN FormatUsize(seg.start_verse) \o <<"-">> \o FormatUsize(seg.end_chapter)
                    \o <<":">> \o FormatUsize(seg.end_verse)
             ELSE FormatUsize(seg.start_chapter) \o <<":">> \o FormatUsize(seg.start_verse)
                    \o <<"-">> \o FormatUsize(seg.end_chapter) \o <<":">> \o FormatUsize(seg.end_verse)

RECURSIVE label_from(_, _)
label_from(segs, previous_chapter) ==
    IF segs = <<>> THEN <<>>
    ELSE LET seg == Head(segs)
             ending_chapter == get_ending_chapter(seg)
             joiner == IF previous_chapter = None THEN <<>>
                       ELSE IF previous_chapter = ending_chapter THEN <<",">>
                       ELSE <<";", " ">>
         IN  joiner \o label_segment(seg, previous_chapter)
                \o label_from(Tail(segs), ending_chapter)

label(segs) == label_from(segs, None)

(***************************************************************************)
(* The corpus (bible_api.rs)                                               *)
(***************************************************************************)
\* the corpora BibleAPI::new is run on: reference_array[book - 1][chapter - 1]
\* is the verse count of the chapter
SmallCorpus == << <<3, 1>>, <<2>> >>

OneBookCorpus == << <<1, 2, 1>> >>

Corpora == {SmallCorpus, OneBookCorpus}

\* abbreviations_to_book_id of SmallCorpus, keys in BTreeMap order
BookKeys == << <<"e">>, <<"j">> >>

abbreviations_to_book_id(key) ==
    IF key = <<"e">> THEN 1 ELSE IF key = <<"j">> THEN 2 ELSE None

\* the outcome of a call that returned value v
Ok(v) == [abort |-> FALSE, value |-> v]

\* the outcome of a call whose usize subtraction underflowed in a build with
\* overflow checks, or whose expect()/unwrap() met a None
Abort == [abort |-> TRUE, value |-> None]

\* usize::MAX, the value `0 - 1` wraps to; it is no index of any Vec
UsizeMax == -2

\* `x - 1` on usize in a build without overflow checks
wrapping_minus_one(x) == IF x >= 1 THEN x - 1 ELSE UsizeMax

\* `x - 1` aborts: x is 0 and the build has overflow checks
minus_one_aborts(x, checks) == x = 0 /\ checks

\* Vec::get(index).is_some(), index 0-based
vec_has(v, index) == index >= 0 /\ index < Len(v)

is_valid_book_chapter(ra, checks, book, chapter) ==
    LET b == wrapping_minus_one(book)
    IN  IF minus_one_aborts(book, checks) THEN Abort
        ELSE Ok(vec_has(ra, b) /\ chapter <= Len(ra[b + 1]))

is_valid_reference(ra, checks, book, chapter, verse) ==
    LET b == wrapping_minus_one(book)
        c == wrapping_minus_one(chapter)
    IN  IF minus_one_aborts(book, checks) THEN Abort
        ELSE IF ~vec_has(ra, b) THEN Ok(FALSE)
        ELSE IF minus_one_aborts(chapter, checks) THEN Abort
        ELSE Ok(vec_has(ra[b + 1], c) /\ verse <= ra[b + 1][c + 1])

\* None when the book id is unknown
get_book_chapter_count(ra, checks, book) ==
    LET b == wrapping_minus_one(book)
    IN  IF minus_one_aborts(book, checks) THEN Abort
        ELSE IF ~vec_has(ra, b) THEN Ok(None)
        ELSE Ok(Len(ra[b + 1]))

\* None when the book id is unknown or the chapter is out of range
get_chapter_verse_count(ra, checks, book, chapter) ==
    LET b == wrapping_minus_one(book)
        c == wrapping_minus_one(chapter)
    IN  IF minus_one_aborts(book, checks) THEN Abort
        ELSE IF ~vec_has(ra, b) THEN Ok(None)
        ELSE IF minus_one_aborts(chapter, checks) THEN Abort
        ELSE IF ~vec_has(ra[b + 1], c) THEN Ok(None)
        ELSE Ok(ra[b + 1][c + 1])

(***************************************************************************)
(* The regular expressions used by the state inference                     *)
(***************************************************************************)
\* \b between text[p - 1] and text[p] (p in 1..Len(text) + 1)
word_boundary(text, p) ==
    LET before == p > 1 /\ IsWordChar(text[p - 1])
        after == p <= Len(text) /\ IsWordChar(text[p])
    IN  before # after

\* the key at index k of the alternation matches at p, between two \b
key_matches_at(text, p, k) ==
    LET key == BookKeys[k]
    IN  /\ p + Len(key) - 1 <= Len(text)
        /\ SubSeq(text, p, p + Len(key) - 1) = key
        /\ word_boundary(text, p)
        /\ word_boundary(text, p + Len(key))

\* book_abbreviation_regex() matched at p: the index of the last character
\* of the match (the first key of the alternation that matches, then an
\* optional '.'), 0 when there is no match at p
book_match_end(text, p) ==
    IF \E k \in 1..Len(BookKeys) : key_matches_at(text, p, k)
    THEN LET k == CHOOSE i \in 1..Len(BookKeys) :
                      /\ key_matches_at(text, p, i)
                      /\ \A j \in 1..(i - 1) : ~key_matches_at(text, p, j)
             e == p + Len(BookKeys[k]) - 1
         IN  IF e < Len(text) /\ text[e + 1] = "." THEN e + 1 ELSE e
    ELSE 0

\* book_abbreviation_regex().find_iter(text) from position p on: the matches
\* in text order, each with its first and last index
RECURSIVE book_matches_from(_, _)
book_matches_from(text, p) ==
    IF p > Len(text) THEN <<>>
    ELSE LET e == book_match_end(text, p)
         IN  IF e = 0 THEN book_matches_from(text, p + 1)
             ELSE <<[start |-> p, end |-> e]>> \o book_matches_from(text, e + 1)

book_abbreviation_regex_find_iter(text) == book_matches_from(text, 1)

\* BibleAPI::get_book_id: the trailing '.' is trimmed before the lookup
get_book_id(book) ==
    abbreviations_to_book_id(
        IF book # <<>> /\ Last(book) = "." THEN Prefix(book, Len(book) - 1) ELSE book)

\* the class [ \d,:;\-...] of segment_characters
SegmentClass == {" ", ",", ":", ";", "-"} \cup DigitChars \cup MojibakeClass

\* re::segment_characters().find(s): the leftmost match, an optional '.'
\* and then the longest run of class characters; <<>> when there is none
segment_characters_find(s) ==
    LET Starts(i) == \/ s[i] \in SegmentClass
                     \/ (s[i] = "." /\ i < Len(s) /\ s[i + 1] \in SegmentClass)
    IN  IF \E i \in 1..Len(s) : Starts(i)
        THEN LET i == CHOOSE k \in 1..Len(s) : Starts(k) /\ \A j \in 1..(k - 1) : ~Starts(j)
                 first == IF s[i] = "." THEN i + 1 ELSE i
                 e == CHOOSE k \in first..Len(s) :
                          /\ \A j \in first..k : s[j] \in SegmentClass
                          /\ (k = Len(s) \/ s[k + 1] \notin SegmentClass)
             IN  SubSeq(s, i, e)
        ELSE <<>>

\* incomplete_segment_start with the pattern ^ *(\d+)(:) *$, the colon required
incomplete_segment_start_ColonRequired(s) ==
    LET d1 == FirstIndexIn(s, DigitChars)
        d2 == LastIndexIn(s, DigitChars)
        colon == d2 < Len(s) /\ s[d2 + 1] = ":"
        matched == /\ d1 # 0
                   /\ colon
                   /\ \A i \in 1..(d1 - 1) : s[i] = " "
                   /\ \A i \in d1..d2 : IsDigit(s[i])
                   /\ \A i \in (d2 + 2)..Len(s) : s[i] = " "
    IN  [matched |-> matched,
         chapter_number |-> IF matched THEN SubSeq(s, d1, d2) ELSE <<>>,
         colon |-> matched]

\* re::incomplete_segment_start().captures(s), the pattern ^ *(\d+)(:)? *$ :
\* whether it matches, group 1 and whether group 2 took part
incomplete_segment_start(s) ==
    LET d1 == FirstIndexIn(s, DigitChars)
        d2 == LastIndexIn(s, DigitChars)
        colon == d2 < Len(s) /\ s[d2 + 1] = ":"
        rest == IF colon THEN d2 + 2 ELSE d2 + 1
        matched == /\ d1 # 0
                   /\ \A i \in 1..(d1 - 1) : s[i] = " "
                   /\ \A i \in d1..d2 : IsDigit(s[i])
                   /\ \A i \in rest..Len(s) : s[i] = " "
    IN  [matched |-> matched,
         chapter_number |-> IF matched THEN SubSeq(s, d1, d2) ELSE <<>>,
         colon |-> matched /\ colon]

\* the maximal digit runs of s, in text order, each with its first and last index
RECURSIVE digit_runs_from(_, _)
digit_runs_from(s, p) ==
    IF p > Len(s) THEN <<>>
    ELSE IF ~IsDigit(s[p]) THEN digit_runs_from(s, p + 1)
    ELSE LET e == CHOOSE k \in p..Len(s) :
                      /\ \A j \in p..k : IsDigit(s[j])
                      /\ (k = Len(s) \/ ~IsDigit(s[k + 1]))
         IN  <<[start |-> p, end |-> e]>> \o digit_runs_from(s, e + 1)

\* re::chapter().captures_iter(s), the pattern (\d+)(:|$) : group 1 of every
\* match, a digit run that a ':' or the end of s follows
RECURSIVE chapter_groups(_, _)
chapter_groups(s, runs) ==
    IF runs = <<>> THEN <<>>
    ELSE LET r == Head(runs)
         IN  IF r.end = Len(s) \/ s[r.end + 1] = ":"
             THEN <<r>> \o chapter_groups(s, Tail(runs))
             ELSE chapter_groups(s, Tail(runs))

chapter_captures_iter(s) == chapter_groups(s, digit_runs_from(s, 1))

\* re::verse().captures_iter(s), the pattern (\d+)([^:]|$) : group 1 of every
\* match; a digit run that a ':' follows matches without its last digit,
\* which group 2 takes, and does not match when it is a single digit
RECURSIVE verse_groups(_, _)
verse_groups(s, runs) ==
    IF runs = <<>> THEN <<>>
    ELSE LET r == Head(runs)
         IN  IF r.end = Len(s) \/ s[r.end + 1] # ":"
             THEN <<r>> \o verse_groups(s, Tail(runs))
             ELSE IF r.end > r.start
             THEN <<[start |-> r.start, end |-> r.end - 1]>> \o verse_groups(s, Tail(runs))
             ELSE verse_groups(s, Tail(runs))

verse_captures_iter(s) == verse_groups(s, digit_runs_from(s, 1))

\* str::trim on a string whose only white space is ' '
trim(s) ==
    LET nonSpace == {c \in SegmentClass \cup LetterChars \cup {".", EnDash} : c # " "}
        first == FirstIndexIn(s, nonSpace)
        last == LastIndexIn(s, nonSpace)
    IN  IF first = 0 THEN <<>> ELSE SubSeq(s, first, last)

(***************************************************************************)
(* parse_current_state (bible_lsp.rs)                                      *)
(***************************************************************************)
BooksOnly == [kind |-> "BooksOnly"]

ChaptersOnly(book_id) == [kind |-> "ChaptersOnly", book_id |-> book_id]

VersesOnly(book_id, chapter) ==
    [kind |-> "VersesOnly", book_id |-> book_id, chapter |-> chapter]

ChaptersOrVerses(book_id, chapter, verse, segs, operator) ==
    [kind |-> "ChaptersOrVerses", book_id |-> book_id, chapter |-> chapter,
     verse |-> verse, segments |-> segs, operator |-> operator]

\* the request ended in a panic (an expect() on None or Err)
Panicked == [kind |-> "Panic"]

\* the match of lines 173-184 without the trim()
ending_operator_NoTrim(segment_match) ==
    LET c == Last(segment_match)
    IN  IF c = ":" THEN "Chapter"
        ELSE IF c \in {",", ";"} THEN "Break"
        ELSE IF c \in {"-", EnDash} THEN "Through"
        ELSE "None"

\* the match of lines 173-184 on a run with a character other than ' '
ending_operator(segment_match) ==
    LET c == Last(trim(segment_match))
    IN  IF c = ":" THEN "Chapter"
        ELSE IF c \in {",", ";"} THEN "Break"
        ELSE IF c \in {"-", EnDash} THEN "Through"
        ELSE "None"

\* lines 171-234: the run is parsed and classified
parse_complete_state(book_id, segment_match) ==
    LET parsed == parse_reference_segments(segment_match)
        chapters == chapter_captures_iter(segment_match)
        verses == verse_captures_iter(segment_match)
        last_chapter == Last(chapters)
        last_verse == Last(verses)
    IN  IF ~parsed.ok \/ trim(segment_match) = <<>> \/ parsed.segments = <<>>
           \/ chapters = <<>> \/ verses = <<>>
        THEN Panicked
        ELSE ChaptersOrVerses(
                 book_id,
                 ParseUsize(SubSeq(segment_match, last_chapter.start, last_chapter.end)),
                 ParseUsize(SubSeq(segment_match, last_verse.start, last_verse.end)),
                 parsed.segments,
                 ending_operator(segment_match))

\* lines 123-169, from `progress = ChaptersOnly` on
parse_after_book(book_id, everything_after_book_name) ==
    LET segment_match == segment_characters_find(everything_after_book_name)
        cap == incomplete_segment_start(everything_after_book_name)
    IN  IF everything_after_book_name = <<" ">> THEN ChaptersOnly(book_id)
        ELSE IF segment_match = <<>> THEN ChaptersOnly(book_id)
        ELSE IF cap.matched
        THEN IF cap.colon THEN VersesOnly(book_id, ParseUsize(cap.chapter_number))
             ELSE ChaptersOnly(book_id)
        ELSE parse_complete_state(book_id, segment_match)

\* parse_current_state without the early return of lines 116-118
parse_current_state_NoEmptyTailReturn(text_before_cursor) ==
    LET matches == book_abbreviation_regex_find_iter(text_before_cursor)
        book_match == Last(matches)
        everything_after_book_name == Suffix(text_before_cursor, book_match.end + 1)
        book_id == get_book_id(SubSeq(text_before_cursor, book_match.start, book_match.end))
    IN  IF matches = <<>> THEN BooksOnly
        ELSE IF book_id = None THEN BooksOnly
        ELSE parse_after_book(book_id, everything_after_book_name)

parse_current_state(text_before_cursor) ==
    LET matches == book_abbreviation_regex_find_iter(text_before_cursor)
        book_match == Last(matches)
        everything_after_book_name == Suffix(text_before_cursor, book_match.end + 1)
        book_id == get_book_id(SubSeq(text_before_cursor, book_match.start, book_match.end))
    IN  IF matches = <<>> THEN BooksOnly
        ELSE IF Len(everything_after_book_name) = 0 THEN BooksOnly
        ELSE IF book_id = None THEN BooksOnly
        ELSE parse_after_book(book_id, everything_after_book_name)

(***************************************************************************)
(* give_suggestions and suggest_auto_completion                            *)
(***************************************************************************)
\* the number of books suggest_all_books lists
BookCount == 66

BookNameCompletion(book_id) == [kind |-> "BookName", book_id |-> book_id]

ChapterCompletion(book_id, chapter) ==
    [kind |-> "Chapter", book_id |-> book_id, chapter |-> chapter]

VerseCompletion(book_id, chapter, verse, segs, operator) ==
    [kind |-> "Verse", book_id |-> book_id, chapter |-> chapter, verse |-> verse,
     segments |-> segs, operator |-> operator]

suggest_all_books == [i \in 1..BookCount |-> BookNameCompletion(i)]

\* (from..=to).map(|chapter| Chapter{book_id, chapter}).collect()
chapter_completions(book_id, from, to) ==
    [i \in 1..(to - from + 1) |-> ChapterCompletion(book_id, from + i - 1)]

\* (from..=to).map(|verse| Verse{..}).collect()
verse_completions(book_id, chapter, from, to, segs, operator) ==
    [i \in 1..(to - from + 1) |->
        VerseCompletion(book_id, chapter, from + i - 1, segs, operator)]

\* AutocompleteState::give_suggestions; Abort when an expect() fails
give_suggestions(state, ra, checks) ==
    IF state.kind = "BooksOnly" THEN Ok(suggest_all_books)
    ELSE IF state.kind = "ChaptersOnly"
    THEN LET chapter_count == get_book_chapter_count(ra, checks, state.book_id)
         IN  IF chapter_count.abort \/ chapter_count.value = None THEN Abort
             ELSE Ok(chapter_completions(state.book_id, 1, chapter_count.value))
    ELSE IF state.kind = "VersesOnly"
    THEN LET verse_count == get_chapter_verse_count(ra, checks, state.book_id, state.chapter)
         IN  IF verse_count.abort THEN Abort
             ELSE IF verse_count.value = None THEN Ok(<<>>)
             ELSE Ok(verse_completions(state.book_id, state.chapter, 1, verse_count.value,
                                       <<>>, "Chapter"))
    ELSE LET chapter_count == get_book_chapter_count(ra, checks, state.book_id)
             verse_count == get_chapter_verse_count(ra, checks, state.book_id, state.chapter)
         IN  IF chapter_count.abort \/ chapter_count.value = None THEN Abort
             ELSE IF verse_count.abort THEN Abort
             ELSE IF verse_count.value = None THEN Ok(<<>>)
             ELSE Ok(verse_completions(state.book_id, state.chapter, state.verse + 1,
                                       verse_count.value, state.segments, state.operator)
                     \o chapter_completions(state.book_id, state.chapter + 1,
                                            chapter_count.value))

\* BibleLSP::suggest_auto_completion after parse_current_state returned state
suggest_auto_completion(state, ra, checks) ==
    IF state.kind = "Panic" THEN Abort ELSE give_suggestions(state, ra, checks)

(***************************************************************************)
(* State                                                                   *)
(***************************************************************************)
VARIABLES
    segment_input,   \* the text last handed to BookReferenceSegments::parse
    segments,        \* what that call produced: Returned(..) or Panic
    relabel,         \* label() of the returned segments
    reparsed,        \* parse of that label
    reference_array, \* BibleAPI::reference_array of the loaded corpus
    overflow_checks, \* TRUE in a build with overflow checks (debug profile)
    api_call,        \* the last bounds query made and its result
    text,            \* the line of the document, which ends at the cursor
    typed,           \* the number of characters typed since did_open
    state,           \* the AutocompleteState of the last completion request
    suggestions,     \* what suggest_auto_completion returned for it
    remembered,      \* an earlier give_suggestions call: its state and result
    references,      \* what find_book_references returned for the text
    completion_segments, \* what CompletionSegmentsState::parse returned
    positions,       \* the Range of every reference of a scanned document
    search,          \* the locals of the binary search of calculate_position
    regex_cache,     \* BOOK_ABBREVIATION_REGEX_CACHE, its lock and its callers
    documents,       \* the document store of the server and a request on it
    range_contents   \* what get_bible_range_contents returned

vars == <<segment_input, segments, relabel, reparsed,
          reference_array, overflow_checks, api_call,
          text, typed, state, suggestions, remembered, references,
          completion_segments, positions, search, regex_cache, documents,
          range_contents>>

server_vars == <<positions, search, regex_cache, documents, range_contents>>

scan_vars == <<remembered, references, completion_segments, positions, search,
               regex_cache, documents, range_contents>>

completion_vars == <<text, typed, state, suggestions>>

parse_vars == <<segment_input, segments, relabel, reparsed>>

api_vars == <<reference_array, overflow_checks, api_call>>

\* the characters typed in the parser specification
SegChars == {"1", "2", ":", "-", ",", ";"}

\* the documented example of BookReferenceSegment (lines 35-48) and of the
\* parser's doc comment (lines 193-217)
DocExample ==
    <<"1", ":", "1", "-", "4", ",", "5", "-", "7", ",",
      "2", ":", "2", "-", "3", ":", "4", ",", "6">>

\* no bounds query has been made yet
NoQuery == [fn |-> "none", book |-> 0, chapter |-> 0, verse |-> 0, result |-> Ok(None)]

\* no completion has been requested yet
NoRequest == [kind |-> "NoRequest"]

\* no document is open
NoDocument ==
    /\ text = <<>>
    /\ typed = 0
    /\ state = NoRequest
    /\ suggestions = Ok(<<>>)

\* no document with line endings has been scanned
NoPositions == [scanned |-> FALSE, input |-> <<>>, start_indexes |-> <<>>,
                end_indexes |-> <<>>, ranges |-> <<>>]

\* calculate_position is not running
NoSearch == [pc |-> "idle"]

\* the regex cache is not in use
NoCache == [pc |-> "idle"]

\* the server holds no document
NoStore == [pc |-> "idle"]

\* no range has been rendered
NoContents == [called |-> FALSE]

\* nothing has been generated outside a request and nothing scanned
NoScan ==
    /\ remembered = [state |-> NoRequest, suggestions |-> Ok(<<>>), between |-> FALSE]
    /\ references = [scanned |-> FALSE, panic |-> FALSE, found |-> <<>>]
    /\ completion_segments = [called |-> FALSE, panic |-> FALSE]
    /\ positions = NoPositions
    /\ search = NoSearch
    /\ regex_cache = NoCache
    /\ documents = NoStore
    /\ range_contents = NoContents

\* no call has been made yet
NoCall == [ok |-> FALSE, panic |-> FALSE, segments |-> <<>>]

\* BookReferenceSegments::parse(input), then label() and a second parse of
\* the label, as full_ref_label and a later scan of the inserted label do
ParseCall(input) ==
    /\ segment_input' = input
    /\ segments' = parse_reference_segments(input)
    /\ relabel' = IF segments'.ok THEN label(segments'.segments) ELSE <<>>
    /\ reparsed' = IF segments'.ok THEN parse_reference_segments(relabel') ELSE NoCall

ParseInit ==
    /\ segment_input = <<>>
    /\ segments = NoCall
    /\ relabel = <<>>
    /\ reparsed = NoCall
    /\ reference_array = SmallCorpus
    /\ overflow_checks = FALSE
    /\ api_call = NoQuery
    /\ NoDocument
    /\ NoScan

\* the user types one more character of a reference and the text is parsed
ParseTyped ==
    /\ Len(segment_input) < MaxSegLen
    /\ \E c \in SegChars : ParseCall(Append(segment_input, c))
    /\ UNCHANGED api_vars
    /\ UNCHANGED completion_vars
    /\ UNCHANGED scan_vars

\* the documented example is parsed
ParseExample ==
    /\ segment_input = <<>>
    /\ ParseCall(DocExample)
    /\ UNCHANGED api_vars
    /\ UNCHANGED completion_vars
    /\ UNCHANGED scan_vars

ParseNext == ParseTyped \/ ParseExample

ParseSpec == ParseInit /\ [][ParseNext]_vars

(***************************************************************************)
(* The bounds queries, called with every book, chapter and verse number    *)
(***************************************************************************)
\* book ids asked: 0, the ids of the corpus, and one id past the last
BookIds == 0..(Len(reference_array) + 1)

ApiInit ==
    /\ segment_input = <<>>
    /\ segments = NoCall
    /\ relabel = <<>>
    /\ reparsed = NoCall
    /\ reference_array \in Corpora
    /\ overflow_checks \in BOOLEAN
    /\ api_call = NoQuery
    /\ NoDocument
    /\ NoScan

Query(fn, book, chapter, verse, result) ==
    /\ api_call' = [fn |-> fn, book |-> book, chapter |-> chapter,
                    verse |-> verse, result |-> result]
    /\ UNCHANGED <<reference_array, overflow_checks>>
    /\ UNCHANGED parse_vars
    /\ UNCHANGED completion_vars
    /\ UNCHANGED scan_vars

IsValidBookChapter ==
    \E book \in BookIds, chapter \in 0..MaxChapter :
        Query("is_valid_book_chapter", book, chapter, 0,
              is_valid_book_chapter(reference_array, overflow_checks, book, chapter))

IsValidReference ==
    \E book \in BookIds, chapter \in 0..MaxChapter, verse \in 0..MaxVerse :
        Query("is_valid_reference", book, chapter, verse,
              is_valid_reference(reference_array, overflow_checks, book, chapter, verse))

GetBookChapterCount ==
    \E book \in BookIds :
        Query("get_book_chapter_count", book, 0, 0,
              get_book_chapter_count(reference_array, overflow_checks, book))

GetChapterVerseCount ==
    \E book \in BookIds, chapter \in 0..MaxChapter :
        Query("get_chapter_verse_count", book, chapter, 0,
              get_chapter_verse_count(reference_array, overflow_checks, book, chapter))

ApiNext ==
    \/ IsValidBookChapter
    \/ IsValidReference
    \/ GetBookChapterCount
    \/ GetChapterVerseCount

ApiSpec == ApiInit /\ [][ApiNext]_vars

(***************************************************************************)
(* Completion requests while a line is typed (main.rs)                     *)
(***************************************************************************)
\* the characters typed in the completion specification
TextChars == {"e", "x", " ", ".", "0", "1", "3", ":", ",", ";", "-", EnDash}

\* the lines a document is opened with: empty, the book name and a space
\* (autocompletion.rs:77), and a book with one complete chapter:verse
\* (autocompletion.rs:63-70)
OpenedLines == {<<>>, <<"e", " ">>, <<"e", " ", "1", ":", "2">>}

\* Backend::completion with the cursor at the end of the line: the state
\* inferred from the text before the cursor and the candidates for it
Completion(text_before_cursor) ==
    /\ state' = parse_current_state(text_before_cursor)
    /\ suggestions' = suggest_auto_completion(state', reference_array, overflow_checks)

CompletionInit ==
    /\ segment_input = <<>>
    /\ segments = NoCall
    /\ relabel = <<>>
    /\ reparsed = NoCall
    /\ reference_array = SmallCorpus
    /\ overflow_checks \in BOOLEAN
    /\ api_call = NoQuery
    /\ text \in OpenedLines
    /\ typed = 0
    /\ state = NoRequest
    /\ suggestions = Ok(<<>>)
    /\ NoScan

\* completion is requested on the line as it was opened
CompleteOpened ==
    /\ state = NoRequest
    /\ Completion(text)
    /\ UNCHANGED <<text, typed>>
    /\ UNCHANGED parse_vars
    /\ UNCHANGED api_vars
    /\ UNCHANGED scan_vars

\* a keystroke at the end of the line: did_change stores the new text and
\* the editor requests completion at the new cursor position
TypeAndComplete ==
    /\ typed < MaxTailLen
    /\ \E c \in TextChars :
          /\ text' = Append(text, c)
          /\ Completion(text')
    /\ typed' = typed + 1
    /\ UNCHANGED parse_vars
    /\ UNCHANGED api_vars
    /\ UNCHANGED scan_vars

CompletionNext == CompleteOpened \/ TypeAndComplete

CompletionSpec == CompletionInit /\ [][CompletionNext]_vars

(***************************************************************************)
(* Properties of the parser                                                *)
(***************************************************************************)
\* the range tokens of the text last parsed
Tokens == parse_input_ranges(segment_input)

HasChar(s, c) == \E i \in 1..Len(s) : s[i] = c

\* the number written by the digits of s that directly precede position i
RECURSIVE NumberBefore(_, _)
NumberBefore(s, i) ==
    IF i > 1 /\ IsDigit(s[i - 1])
    THEN 10 * NumberBefore(s, i - 1) + DigitVal(s[i - 1])
    ELSE 0

\* the number written by the digits of s that directly follow position i
RECURSIVE NumberAfterFrom(_, _, _)
NumberAfterFrom(s, i, acc) ==
    IF i < Len(s) /\ IsDigit(s[i + 1])
    THEN NumberAfterFrom(s, i + 1, 10 * acc + DigitVal(s[i + 1]))
    ELSE acc

NumberAfter(s, i) == NumberAfterFrom(s, i, 0)

\* the number a token starts with
LeadingNumber(s) == NumberAfter(s, 0)

\* the chapter in force before token i: the number before the last ':' of the
\* nearest earlier token that has a ':', and 1 when there is none
ChapterBefore(tokens, i) ==
    LET withChapter == {j \in 1..(i - 1) : HasChar(tokens[j], ":")}
    IN  IF withChapter = {} THEN 1
        ELSE LET j == CHOOSE k \in withChapter : \A m \in withChapter : m <= k
             IN  NumberBefore(tokens[j], LastIndexIn(tokens[j], {":"}))

\* the segment C1 prescribes for range token i
RangeSegment(tokens, i) ==
    LET tok == tokens[i]
        d == FirstIndexIn(tok, {"-"})
        left == Prefix(tok, d - 1)
        right == Suffix(tok, d + 1)
        lc == FirstIndexIn(left, {":"})
        rc == FirstIndexIn(right, {":"})
    IN  IF lc # 0 /\ rc # 0
        THEN BookRange(NumberBefore(left, lc), NumberBefore(right, rc),
                       NumberAfter(left, lc), NumberAfter(right, rc))
        ELSE IF lc # 0
        THEN ChapterRange(NumberBefore(left, lc), NumberAfter(left, lc), LeadingNumber(right))
        ELSE IF rc # 0
        THEN BookRange(ChapterBefore(tokens, i), NumberBefore(right, rc),
                       LeadingNumber(left), NumberAfter(right, rc))
        ELSE ChapterRange(ChapterBefore(tokens, i), LeadingNumber(left), LeadingNumber(right))

\* C1: whenever parse returns, it has emitted one segment per token, and the
\* segment of every token that contains '-' is the one chosen by which side
\* of its first '-' has a ':': both -> BookRange(left.ch, left.v, right.ch,
\* right.v); only left -> ChapterRange(left.ch, left.v, right); only right ->
\* BookRange(chapter in force before the token, left, right.ch, right.v);
\* neither -> ChapterRange(chapter in force, left, right).
C1_RangeTokenSegment ==
    segments.ok =>
        /\ Len(segments.segments) = Len(Tokens)
        /\ \A i \in 1..Len(Tokens) :
              HasChar(Tokens[i], "-") => segments.segments[i] = RangeSegment(Tokens, i)

\* a returned parse whose second or later token is a 'v1-v2' range under a
\* chapter other than 1
C1_Witness ==
    /\ segments.ok
    /\ \E i \in 2..Len(Tokens) :
          /\ HasChar(Tokens[i], "-")
          /\ ~HasChar(Tokens[i], ":")
          /\ segments.segments[i].type = "ChapterRange"
          /\ segments.segments[i].chapter # 1

\* C2: whenever parse returns, the segment of every token without a ':' (a
\* bare verse or a bare 'v1-v2' range) has the chapter of the nearest earlier
\* token that has a ':' (its end chapter when that token is a cross-chapter
\* range), and chapter 1 when no earlier token has one.
C2_InheritedChapter ==
    segments.ok =>
        \A i \in 1..Len(Tokens) :
            (i <= Len(segments.segments) /\ ~HasChar(Tokens[i], ":")) =>
                /\ segments.segments[i].type \in {"ChapterVerse", "ChapterRange"}
                /\ segments.segments[i].chapter = ChapterBefore(Tokens, i)

\* a returned parse with a bare verse right after a cross-chapter range
C2_Witness ==
    /\ segments.ok
    /\ \E i \in 2..Len(Tokens) :
          /\ ~HasChar(Tokens[i], ":")
          /\ segments.segments[i - 1].type = "BookRange"
          /\ segments.segments[i - 1].start_chapter # segments.segments[i - 1].end_chapter
          /\ segments.segments[i].chapter = segments.segments[i - 1].end_chapter

\* the four segments the documented example lists
DocExampleSegments ==
    <<ChapterRange(1, 1, 4), ChapterRange(1, 5, 7), BookRange(2, 3, 2, 4), ChapterVerse(3, 6)>>

\* C3 (as amended): parse("1:1-4,5-7,2:2-3:4,6") yields four segments,
\* ChapterRange(1,1,4), ChapterRange(1,5,7), BookRange(2,2,3,4) and
\* ChapterVerse(3,6), the last bare 6 taking chapter 3 from the BookRange.
C3_DocExampleFourSegments ==
    segment_input = DocExample =>
        /\ segments.ok
        /\ Len(segments.segments) = 4
        /\ segments.segments = DocExampleSegments

\* the documented example has been parsed
C3_Witness ==
    /\ segment_input = DocExample
    /\ segments.ok
    /\ Last(segments.segments) = ChapterVerse(3, 6)

\* C3 as stated: the example yields five segments, the listed four among them
C3_Original ==
    segment_input = DocExample =>
        /\ segments.ok
        /\ Len(segments.segments) = 5
        /\ \A k \in 1..4 : \E i \in 1..Len(segments.segments) :
              segments.segments[i] = DocExampleSegments[k]

\* C4: round trip: for every sequence S that parse returns, parse(label(S))
\* returns a sequence of the same length with, position by position, the same
\* variant and the same starting and ending chapter and verse.
C4_RoundTrip ==
    segments.ok =>
        /\ reparsed.ok
        /\ Len(reparsed.segments) = Len(segments.segments)
        /\ \A i \in 1..Len(segments.segments) :
              LET a == segments.segments[i]
                  b == reparsed.segments[i]
              IN  /\ a.type = b.type
                  /\ get_starting_chapter(a) = get_starting_chapter(b)
                  /\ get_starting_verse(a) = get_starting_verse(b)
                  /\ get_ending_chapter(a) = get_ending_chapter(b)
                  /\ get_ending_verse(a) = get_ending_verse(b)

\* a returned parse of two or more segments whose label abbreviates a
\* chapter and was parsed again
C4_Witness ==
    /\ segments.ok
    /\ reparsed.ok
    /\ Len(segments.segments) >= 2
    /\ Len(relabel) < Len(segment_input)
    /\ \E i \in 2..Len(segments.segments) :
          get_starting_chapter(segments.segments[i]) = get_ending_chapter(segments.segments[i - 1])

(***************************************************************************)
(* Properties of the bounds queries                                        *)
(***************************************************************************)
\* the chapter count of a book id of the corpus
chapter_count(book) == Len(reference_array[book])

\* C5 as stated: for every book id b of the corpus and every chapter number
\* c >= 0, is_valid_book_chapter(b, c) is true exactly when
\* 1 <= c <= chapter_count(b); in particular it is false for c = 0.
C5_Original ==
    (/\ api_call.fn = "is_valid_book_chapter"
     /\ api_call.book \in 1..Len(reference_array)) =>
        /\ ~api_call.result.abort
        /\ api_call.result.value <=>
              (1 <= api_call.chapter /\ api_call.chapter <= chapter_count(api_call.book))

(***************************************************************************)
(* Properties of the state inference and of suggest_auto_completion        *)
(***************************************************************************)
\* a completion request has been answered for the text
Requested == state # NoRequest

BookMatches == book_abbreviation_regex_find_iter(text)

HasBook == BookMatches # <<>>

\* the id of the last book named in the text and the text after its name
LastBookId ==
    get_book_id(SubSeq(text, Last(BookMatches).start, Last(BookMatches).end))

TailText == Suffix(text, Last(BookMatches).end + 1)

\* t[from..to] is a non-empty run of digits
IsNumber(t, from, to) == from <= to /\ \A k \in from..to : IsDigit(t[k])

\* t is optional spaces, the digits t[i..j] and whatever follows them
StartsWithNumber(t, i, j) ==
    /\ 1 <= i /\ j <= Len(t)
    /\ IsNumber(t, i, j)
    /\ \A k \in 1..(i - 1) : t[k] = " "
    /\ (j = Len(t) \/ ~IsDigit(t[j + 1]))

\* C6 as stated: when the text before the cursor names a book followed by a
\* chapter number greater than the book's chapter count and a ':' (then
\* nothing, a verse number, or a verse number and a ',' or ';'),
\* suggest_auto_completion finishes without a fatal failure and returns an
\* empty candidate list.
C6_Original ==
    (Requested /\ HasBook) =>
        \A i \in 1..Len(TailText), j \in 1..Len(TailText) :
            LET t == TailText
                rest == Suffix(t, j + 2)
                verseEnd == LastIndexIn(rest, DigitChars)
            IN  (/\ StartsWithNumber(t, i, j)
                 /\ j < Len(t) /\ t[j + 1] = ":"
                 /\ ParseUsize(SubSeq(t, i, j)) > chapter_count(LastBookId)
                 /\ \/ rest = <<>>
                    \/ IsNumber(rest, 1, Len(rest))
                    \/ /\ Len(rest) >= 2
                       /\ IsNumber(rest, 1, Len(rest) - 1)
                       /\ Last(rest) \in {",", ";"})
                => /\ state.kind # "Panic"
                   /\ ~suggestions.abort
                   /\ suggestions.value = <<>>

\* C7 (as amended): infer_state on text that ends exactly at the end of the
\* last book-name match (empty tail) returns BooksOnly.
C7_EmptyTailBooksOnly ==
    Requested =>
        LET matches == BookMatches
        IN  (matches # <<>> /\ Last(matches).end = Len(text)) => state = BooksOnly

\* a request answered for a text that ends with a book name
C7_Witness ==
    /\ Requested
    /\ HasBook
    /\ Last(BookMatches).end = Len(text)
    /\ LastBookId = 1
    /\ state = BooksOnly
    /\ ~suggestions.abort
    /\ Len(suggestions.value) = BookCount

\* C7 as stated: on such a text infer_state returns ChaptersOnly with the
\* book's id
C7_Original ==
    (Requested /\ HasBook /\ Last(BookMatches).end = Len(text)) =>
        state = ChaptersOnly(LastBookId)

\* C8: when the text after the last book name is optional spaces, one digit
\* run and an optional colon, infer_state returns VersesOnly{book, chapter =
\* the digit run} if the colon is present and ChaptersOnly{book} if it is
\* absent; it returns ChaptersOnly{book} too when that text is one space.
C8_IncompleteStart ==
    (Requested /\ HasBook) =>
        LET t == TailText
            book == LastBookId
            i == FirstIndexIn(t, DigitChars)
            j == CHOOSE k \in i..Len(t) : StartsWithNumber(t, i, k)
        IN  /\ t = <<" ">> => state = ChaptersOnly(book)
            /\ (i # 0 /\ \A k \in 1..(i - 1) : t[k] = " ") =>
                  /\ j = Len(t) => state = ChaptersOnly(book)
                  /\ (j + 1 = Len(t) /\ t[j + 1] = ":") =>
                        state = VersesOnly(book, DecimalValue(SubSeq(t, i, j), 0))

\* a request answered with VersesOnly for a two-digit chapter and a colon
C8_Witness ==
    /\ Requested
    /\ HasBook
    /\ Len(TailText) = 4
    /\ StartsWithNumber(TailText, 2, 3)
    /\ TailText[4] = ":"
    /\ state.kind = "VersesOnly"
    /\ state.chapter >= 10

\* the operator C9 prescribes for the last character of the trimmed run
OperatorOf(c) ==
    CASE c = ":" -> "Chapter"
      [] c \in {",", ";"} -> "Break"
      [] c \in {"-", EnDash} -> "Through"
      [] OTHER -> "None"

\* the first run of segment characters of the text after the book name
SegmentRun == segment_characters_find(TailText)

\* C9: whenever infer_state returns ChaptersOrVerses, its ending operator is
\* the one of the last character of the segment run that is not a space:
\* ':' gives Chapter, ',' or ';' Break, '-' or en-dash Through, any other
\* character None; "e 1:2-" has operator Through.
C9_EndingOperator ==
    /\ state.kind = "ChaptersOrVerses" =>
          LET run == SegmentRun
              solid == {k \in 1..Len(run) : run[k] # " "}
              i == CHOOSE k \in solid : \A m \in solid : m <= k
          IN  solid # {} /\ state.operator = OperatorOf(run[i])
    /\ (Requested /\ text = <<"e", " ", "1", ":", "2", "-">>) =>
          (state.kind = "ChaptersOrVerses" /\ state.operator = "Through")

\* ChaptersOrVerses returned for a run that ends in a separator and spaces
C9_Witness ==
    /\ state.kind = "ChaptersOrVerses"
    /\ state.operator \in {"Through", "Break", "Chapter"}
    /\ Last(text) = " "
    /\ Last(SegmentRun) = " "

\* C10 as stated: when a digit is typed right after a complete reference and
\* a separator, the chapter and verse anchor of the returned ChaptersOrVerses
\* state stay those of the completed reference (the state before the digit).
C10_Original ==
    [][(/\ state.kind = "ChaptersOrVerses"
        /\ Len(text) >= 2
        /\ Last(text) \in {",", ";", "-"}
        /\ IsDigit(text[Len(text) - 1])
        /\ Len(text') = Len(text) + 1
        /\ IsDigit(Last(text')))
       => (/\ state'.kind = "ChaptersOrVerses"
           /\ state'.chapter = state.chapter
           /\ state'.verse = state.verse)]_vars

(***************************************************************************)
(* give_suggestions called on any AutocompleteState (autocompletion.rs)    *)
(***************************************************************************)
\* the operators of the ChaptersOrVerses states generated for
SuggestOperators == {"Through"}

\* the verse counts of a book of the corpus, <<>> for an unknown book id
chapters_of(book) ==
    IF book \in 1..Len(reference_array) THEN reference_array[book] ELSE <<>>

\* chapter numbers from 0 to one past the last chapter of the book
SuggestChapters(book) == 0..(Len(chapters_of(book)) + 1)

\* verse numbers from 0 to one past the longest chapter of the book
SuggestVerses(book) ==
    LET chapters == chapters_of(book)
        longest == IF chapters = <<>> THEN 0
                   ELSE CHOOSE v \in {chapters[i] : i \in 1..Len(chapters)} :
                            \A i \in 1..Len(chapters) : chapters[i] <= v
    IN  0..(longest + 1)

\* the AutocompleteState values give_suggestions is called with
SuggestStates ==
    {BooksOnly}
    \cup {ChaptersOnly(b) : b \in BookIds}
    \cup UNION {{VersesOnly(b, c) : c \in SuggestChapters(b)} : b \in BookIds}
    \cup UNION {{ChaptersOrVerses(b, c, v, <<ChapterVerse(1, 1)>>, o) :
                    c \in SuggestChapters(b), v \in SuggestVerses(b), o \in SuggestOperators} :
                b \in BookIds}

SuggestInit ==
    /\ segment_input = <<>>
    /\ segments = NoCall
    /\ relabel = <<>>
    /\ reparsed = NoCall
    /\ reference_array \in Corpora
    /\ overflow_checks \in BOOLEAN
    /\ api_call = NoQuery
    /\ NoDocument
    /\ NoScan

\* the first call is remembered for a later comparison, with whether a call
\* on another state was made since
Remember(s, result) ==
    IF remembered.state = NoRequest
    THEN [state |-> s, suggestions |-> result, between |-> FALSE]
    ELSE [remembered EXCEPT !.between = @ \/ s # remembered.state]

\* self.give_suggestions(api) with the order reversed once a call is remembered
GiveSuggestions_HistoryOrdered(s) ==
    LET result == give_suggestions(s, reference_array, overflow_checks)
        n == Len(result.value)
    IN  /\ state' = s
        /\ suggestions' =
              IF result.abort \/ remembered.state = NoRequest THEN result
              ELSE Ok([i \in 1..n |-> result.value[n + 1 - i]])
        /\ remembered' = Remember(s, suggestions')
        /\ UNCHANGED <<text, typed, references, completion_segments, positions,
                 search, regex_cache, documents, range_contents>>
        /\ UNCHANGED parse_vars
        /\ UNCHANGED api_vars

\* self.give_suggestions(api)
GiveSuggestions(s) ==
    /\ state' = s
    /\ suggestions' = give_suggestions(s, reference_array, overflow_checks)
    /\ remembered' = Remember(s, suggestions')
    /\ UNCHANGED <<text, typed, references, completion_segments, positions,
                 search, regex_cache, documents, range_contents>>
    /\ UNCHANGED parse_vars
    /\ UNCHANGED api_vars

Suggest == \E s \in SuggestStates : GiveSuggestions(s)

SuggestNext == Suggest

SuggestSpec == SuggestInit /\ [][SuggestNext]_vars

\* C11 as stated: give_suggestions for VersesOnly{book, chapter} returns one
\* Verse candidate for each verse 1..=V in ascending order, V the verse count
\* of the chapter, and returns the empty list without failing for every
\* chapter outside 1..=chapter_count(book), chapter 0 included.
C11_Original ==
    (state.kind = "VersesOnly" /\ state.book_id \in 1..Len(reference_array)) =>
        LET chapters == chapters_of(state.book_id)
        IN  /\ ~suggestions.abort
            /\ IF state.chapter \in 1..Len(chapters)
               THEN /\ Len(suggestions.value) = chapters[state.chapter]
                    /\ \A i \in 1..Len(suggestions.value) :
                          /\ suggestions.value[i].kind = "Verse"
                          /\ suggestions.value[i].verse = i
               ELSE suggestions.value = <<>>

\* C12 as stated: give_suggestions for ChaptersOrVerses{book, chapter, verse}
\* with a valid chapter returns the Verse candidates verse+1..=verse_count in
\* ascending order followed by the Chapter candidates chapter+1..=chapter_count
\* in ascending order; it returns the empty list when the chapter is out of
\* range.
C12_Original ==
    (state.kind = "ChaptersOrVerses" /\ state.book_id \in 1..Len(reference_array)) =>
        LET chapters == chapters_of(state.book_id)
            got == suggestions.value
        IN  /\ ~suggestions.abort
            /\ IF state.chapter \in 1..Len(chapters)
               THEN LET verses == IF chapters[state.chapter] > state.verse
                                  THEN chapters[state.chapter] - state.verse ELSE 0
                        later == Len(chapters) - state.chapter
                    IN  /\ Len(got) = verses + later
                        /\ \A i \in 1..verses :
                              /\ got[i].kind = "Verse"
                              /\ got[i].chapter = state.chapter
                              /\ got[i].verse = state.verse + i
                        /\ \A i \in 1..later :
                              /\ got[verses + i].kind = "Chapter"
                              /\ got[verses + i].chapter = state.chapter + i
               ELSE got = <<>>

\* C13 as stated: give_suggestions for ChaptersOnly{book_id} returns the
\* Chapter candidates 1..=chapter_count(book_id) in ascending order, and an
\* empty list, not a fatal failure, when the corpus has no chapter count for
\* book_id.
C13_Original ==
    state.kind = "ChaptersOnly" =>
        LET chapters == chapters_of(state.book_id)
        IN  /\ ~suggestions.abort
            /\ Len(suggestions.value) = Len(chapters)
            /\ \A i \in 1..Len(chapters) :
                  /\ suggestions.value[i].kind = "Chapter"
                  /\ suggestions.value[i].book_id = state.book_id
                  /\ suggestions.value[i].chapter = i

(***************************************************************************)
(* BibleCompletion::label (autocompletion.rs)                              *)
(***************************************************************************)
\* BibleAPI::get_book_name: the name whose lower case is the book's key
get_book_name(book) ==
    IF book = 1 THEN [some |-> TRUE, name |-> <<"e">>]
    ELSE IF book = 2 THEN [some |-> TRUE, name |-> <<"j">>]
    ELSE [some |-> FALSE, name |-> <<>>]

\* the Through arm with `segments.pop()` ahead of `segments.last()`
labelled_segments_PopFirst(completion) ==
    LET segs == completion.segments
        popped == IF segs = <<>> THEN <<>> ELSE Prefix(segs, Len(segs) - 1)
    IN  IF completion.operator \in {"None", "Chapter"} THEN Returned(segs)
        ELSE IF completion.operator = "Break"
        THEN Returned(Append(segs, ChapterVerse(completion.chapter, completion.verse)))
        ELSE IF popped = <<>> THEN Panic
        ELSE Returned(Append(popped,
                             ChapterRange(completion.chapter,
                                          get_ending_verse(Last(popped)),
                                          completion.verse)))

\* the segments a Verse candidate is labelled with: `segments` after the
\* match on its operator
labelled_segments(completion) ==
    LET segs == completion.segments
    IN  IF completion.operator \in {"None", "Chapter"} THEN Returned(segs)
        ELSE IF completion.operator = "Break"
        THEN Returned(Append(segs, ChapterVerse(completion.chapter, completion.verse)))
        ELSE IF segs = <<>> THEN Panic
        ELSE Returned(Append(Prefix(segs, Len(segs) - 1),
                             ChapterRange(completion.chapter,
                                          get_ending_verse(Last(segs)),
                                          completion.verse)))

\* BibleCompletion::label; Abort when an unwrap() or expect() fails
BibleCompletion_label(completion) ==
    LET book_name == get_book_name(completion.book_id)
    IN  IF ~book_name.some THEN Abort
        ELSE IF completion.kind = "BookName" THEN Ok(book_name.name)
        ELSE IF completion.kind = "Chapter"
        THEN Ok(book_name.name \o <<" ">> \o FormatUsize(completion.chapter))
        ELSE LET segs == labelled_segments(completion)
             IN  IF segs.panic THEN Abort
                 ELSE Ok(book_name.name \o <<" ">> \o label(segs.segments))

\* the Verse candidates of the last completion request
VerseCandidates ==
    IF suggestions.abort THEN {}
    ELSE {suggestions.value[i] : i \in {k \in 1..Len(suggestions.value) :
                                           suggestions.value[k].kind = "Verse"}}

\* C14 as stated: the label of a Verse candidate applies the ending operator
\* to the typed segments: Through replaces the last segment by a range that
\* ends at the candidate's verse; Break and ChapterColon both append a single
\* chapter:verse segment for the candidate; None leaves the segments unchanged.
C14_Original ==
    \A c \in VerseCandidates :
        LET segs == c.segments
            labelled == labelled_segments(c)
            single == ChapterVerse(c.chapter, c.verse)
        IN  /\ labelled.ok
            /\ BibleCompletion_label(c) =
                  Ok(get_book_name(c.book_id).name \o <<" ">> \o label(labelled.segments))
            /\ c.operator = "Through" =>
                  /\ segs # <<>>
                  /\ Len(labelled.segments) = Len(segs)
                  /\ Prefix(labelled.segments, Len(segs) - 1) = Prefix(segs, Len(segs) - 1)
                  /\ Last(labelled.segments).type = "ChapterRange"
                  /\ Last(labelled.segments).end_verse = c.verse
            /\ c.operator \in {"Break", "Chapter"} => labelled.segments = Append(segs, single)
            /\ c.operator = "None" => labelled.segments = segs

(***************************************************************************)
(* The scanner: BibleLSP::find_book_references (bible_lsp.rs)              *)
(***************************************************************************)
\* the class [,:;\-...] that joins two numbers after a book name
PostBookJoiners == {",", ":", ";", "-"} \cup MojibakeClass

\* the index after the spaces that start at s[p]
RECURSIVE skip_spaces(_, _)
skip_spaces(s, p) ==
    IF p <= Len(s) /\ s[p] = " " THEN skip_spaces(s, p + 1) ELSE p

\* the index after the digits that start at s[p] (p itself when there is none)
RECURSIVE skip_digits(_, _)
skip_digits(s, p) ==
    IF p <= Len(s) /\ IsDigit(s[p]) THEN skip_digits(s, p + 1) ELSE p

\* ( *[,:;\-...] *\d+)* from s[p]: the index after the last repetition
RECURSIVE post_book_repetitions(_, _)
post_book_repetitions(s, p) ==
    LET joiner == skip_spaces(s, p)
        number == skip_spaces(s, joiner + 1)
        after == skip_digits(s, number)
    IN  IF joiner <= Len(s) /\ s[joiner] \in PostBookJoiners /\ after > number
        THEN post_book_repetitions(s, after)
        ELSE p

\* find() of the pattern ^ *\d+( *[,:;\-...] *\d+)*, the verse not required
post_book_valid_reference_segment_characters_ChapterOnly(s) ==
    LET chapter == skip_spaces(s, 1)
        colon == skip_digits(s, chapter)
    IN  IF colon > chapter
        THEN [matched |-> TRUE, end |-> post_book_repetitions(s, colon) - 1]
        ELSE [matched |-> FALSE, end |-> 0]

\* find() of the pattern ^ *\d+:\d+[ \d,:;\-...]*, the run not ending on a digit
post_book_valid_reference_segment_characters_AnyEnding(s) ==
    LET chapter == skip_spaces(s, 1)
        colon == skip_digits(s, chapter)
        verse == colon + 1
        after == skip_digits(s, verse)
        class == PostBookJoiners \cup DigitChars \cup {" "}
        stops == {k \in after..(Len(s) + 1) :
                     /\ \A j \in after..(k - 1) : s[j] \in class
                     /\ (k = Len(s) + 1 \/ s[k] \notin class)}
    IN  IF colon > chapter /\ colon <= Len(s) /\ s[colon] = ":" /\ after > verse
        THEN [matched |-> TRUE, end |-> (CHOOSE k \in stops : TRUE) - 1]
        ELSE [matched |-> FALSE, end |-> 0]

\* re::post_book_valid_reference_segment_characters().find(s), the pattern
\* ^ *\d+:\d+( *[,:;\-...] *\d+)*: s[1..end] is the match
post_book_valid_reference_segment_characters(s) ==
    LET chapter == skip_spaces(s, 1)
        colon == skip_digits(s, chapter)
        verse == colon + 1
        after == skip_digits(s, verse)
    IN  IF colon > chapter /\ colon <= Len(s) /\ s[colon] = ":" /\ after > verse
        THEN [matched |-> TRUE, end |-> post_book_repetitions(s, after) - 1]
        ELSE [matched |-> FALSE, end |-> 0]

\* BookReference::new for a document of one line: the range is the 0-based
\* start column and the end column after the last character (an `expect`
\* of the parser or of get_book_id gives panic)
BookReference(book_id, start_index, end_index, segment_chars) ==
    LET parsed == parse_reference_segments(segment_chars)
    IN  [panic |-> parsed.panic \/ book_id = None,
         book_id |-> book_id,
         range |-> [start |-> start_index, end |-> end_index],
         segments |-> parsed.segments]

\* the loop of lines 298-320 over the book matches from index i on
RECURSIVE book_references_from(_, _, _)
book_references_from(input, matches, i) ==
    IF i > Len(matches) THEN <<>>
    ELSE LET cap == matches[i]
             next_start == IF i < Len(matches) THEN matches[i + 1].start ELSE Len(input) + 1
             after_book == SubSeq(input, cap.end + 1, next_start - 1)
             book_name == SubSeq(input, cap.start, cap.end)
             segment_match == post_book_valid_reference_segment_characters(after_book)
             rest == book_references_from(input, matches, i + 1)
         IN  IF segment_match.matched
             THEN <<BookReference(get_book_id(book_name), cap.start - 1,
                                  cap.end + segment_match.end,
                                  Prefix(after_book, segment_match.end))>> \o rest
             ELSE rest

\* BibleLSP::find_book_references(input) on a document of one line
find_book_references(input) ==
    LET found == book_references_from(input, book_abbreviation_regex_find_iter(input), 1)
    IN  IF \E k \in 1..Len(found) : found[k].panic
        THEN [scanned |-> TRUE, panic |-> TRUE, found |-> <<>>]
        ELSE [scanned |-> TRUE, panic |-> FALSE,
              found |-> [k \in 1..Len(found) |->
                            [book_id |-> found[k].book_id, range |-> found[k].range,
                             segments |-> found[k].segments]]]

\* the characters typed into a scanned document
ScanChars == {"e", "j", "x", " ", ".", ",", ":", "-", "1", "2"}

\* the sentence of the doc comment of re.rs:17-18, every word that names no
\* book written x
ProseExample ==
    <<"x", " ", "x", " ", "e", " ", "4", ":", "2", "8", ",", " ", "x", " ", "x">>

\* the one-line documents a scan starts from
ScanOpened ==
    {<<>>,
     <<"e", " ", "1", ":", "2">>,
     <<"e", " ", "1", ":", "2", "-", "3">>,
     <<"e", ".", "2", ":", "1", " ", "j", " ", "1", ":", "1">>,
     ProseExample}

ScanInit ==
    /\ segment_input = <<>>
    /\ segments = NoCall
    /\ relabel = <<>>
    /\ reparsed = NoCall
    /\ reference_array = SmallCorpus
    /\ overflow_checks = FALSE
    /\ api_call = NoQuery
    /\ text \in ScanOpened
    /\ typed = 0
    /\ state = NoRequest
    /\ suggestions = Ok(<<>>)
    /\ NoScan

\* the opened document is scanned (hover, diagnostic, ...)
ScanOpenedDocument ==
    /\ ~references.scanned
    /\ references' = find_book_references(text)
    /\ UNCHANGED <<text, typed, state, suggestions, remembered, completion_segments, positions,
                 search, regex_cache, documents, range_contents>>
    /\ UNCHANGED parse_vars
    /\ UNCHANGED api_vars

\* did_change appends a character and the document is scanned again
TypeAndScan ==
    /\ typed < MaxTailLen
    /\ \E c \in ScanChars :
          /\ text' = Append(text, c)
          /\ references' = find_book_references(text')
    /\ typed' = typed + 1
    /\ UNCHANGED <<state, suggestions, remembered, completion_segments, positions,
                 search, regex_cache, documents, range_contents>>
    /\ UNCHANGED parse_vars
    /\ UNCHANGED api_vars

ScanNext == ScanOpenedDocument \/ TypeAndScan

ScanSpec == ScanInit /\ [][ScanNext]_vars

\* the book-name matches of the scanned document
ScanMatches == book_abbreviation_regex_find_iter(text)

\* the text between the end of book match m and the next book match
AfterBook(matches, m) ==
    SubSeq(text, matches[m].end + 1,
           IF m < Len(matches) THEN matches[m + 1].start - 1 ELSE Len(text))

\* t starts with optional spaces, digits, ':' and a digit
StartsWithChapterVerse(t) ==
    \E i \in 1..Len(t), j \in 1..Len(t) :
        /\ StartsWithNumber(t, i, j)
        /\ j + 2 <= Len(t)
        /\ t[j + 1] = ":"
        /\ IsDigit(t[j + 2])

\* C15: the reference text the scanner takes after a book name ends on a
\* digit, and every separator inside it is followed by a number of the
\* reference; the prose example yields one reference, for the book, with the
\* single segment ChapterVerse(4,28).
C15_ReferenceEndsOnDigit ==
    (references.scanned /\ ~references.panic) =>
        LET matches == ScanMatches
            found == references.found
        IN  /\ \A k \in 1..Len(found) :
                  \E m \in 1..Len(matches) :
                      /\ matches[m].start - 1 = found[k].range.start
                      /\ found[k].range.end \in (matches[m].end + 1)..Len(text)
                      /\ IsDigit(text[found[k].range.end])
                      /\ \A p \in (matches[m].end + 1)..found[k].range.end :
                            text[p] \in {",", ";", ":", "-"} =>
                                \E q \in (p + 1)..found[k].range.end :
                                    /\ IsDigit(text[q])
                                    /\ \A r \in (p + 1)..(q - 1) : text[r] = " "
            /\ text = ProseExample =>
                  /\ Len(found) = 1
                  /\ found[1].book_id = 1
                  /\ found[1].segments = <<ChapterVerse(4, 28)>>

\* a scanned reference followed by a separator and prose
C15_Witness ==
    /\ references.scanned
    /\ ~references.panic
    /\ Len(references.found) = 1
    /\ references.found[1].range.end < Len(text)
    /\ text[references.found[1].range.end + 1] \in {",", ":", "-"}
    /\ typed > 0

\* C16: the scanner produces a reference for a book-name match only when
\* optional spaces, digits, ':' and digits start right after the book name;
\* it returns at most one reference per book-name match, in document order.
C16_ReferenceOnlyAfterBook ==
    (references.scanned /\ ~references.panic) =>
        LET matches == ScanMatches
            found == references.found
        IN  /\ Len(found) <= Len(matches)
            /\ \A k \in 1..Len(found) :
                  \E m \in 1..Len(matches) :
                      /\ matches[m].start - 1 = found[k].range.start
                      /\ found[k].book_id =
                            get_book_id(SubSeq(text, matches[m].start, matches[m].end))
                      /\ StartsWithChapterVerse(AfterBook(matches, m))
            /\ \A k \in 1..(Len(found) - 1) :
                  found[k].range.start < found[k + 1].range.start

\* a document with a book name that gives a reference and one that gives none
C16_Witness ==
    /\ references.scanned
    /\ ~references.panic
    /\ Len(references.found) = 1
    /\ Len(ScanMatches) = 2
    /\ typed > 0

\* C20 as stated: every text the anchored after-book pattern matches is
\* parsed without a failure, so find_book_references always returns.
C20_Original == references.scanned => ~references.panic

(***************************************************************************)
(* Trailing separators and dashes in the parser's input                    *)
(***************************************************************************)
\* C17: parse ignores dangling trailing separators: for an input s that ends
\* in a digit and a string t of non-digit characters, parse(s + t) equals
\* parse(s); parse("1:") equals parse("1"), which is [ChapterVerse(1,1)].
C17_TrailingSeparatorsIgnored ==
    LET last_digit == LastIndexIn(segment_input, DigitChars)
    IN  /\ (segment_input # <<>> /\ last_digit # 0) =>
              segments = parse_reference_segments(Prefix(segment_input, last_digit))
        /\ segment_input \in {<<"1">>, <<"1", ":">>} =>
              segments = Returned(<<ChapterVerse(1, 1)>>)

\* a parsed input with two dangling separators after its last digit
C17_Witness ==
    /\ segments.ok
    /\ Len(segments.segments) = 2
    /\ Len(segment_input) >= 5
    /\ LastIndexIn(segment_input, DigitChars) = Len(segment_input) - 2

\* longest text typed before its hyphens are replaced by en-dashes
MaxDashLen == 5

\* s with every '-' replaced by the en-dash U+2013
en_dashed(s) == [i \in 1..Len(s) |-> IF s[i] = "-" THEN EnDash ELSE s[i]]

\* the user types one more ASCII character of a reference and it is parsed
DashTyped ==
    /\ Len(segment_input) < MaxDashLen
    /\ \A i \in 1..Len(segment_input) : segment_input[i] # EnDash
    /\ \E c \in SegChars : ParseCall(Append(segment_input, c))
    /\ UNCHANGED api_vars
    /\ UNCHANGED completion_vars
    /\ UNCHANGED scan_vars

\* the same reference written with en-dashes is parsed
ParseEnDash ==
    /\ \E i \in 1..Len(segment_input) : segment_input[i] = "-"
    /\ ParseCall(en_dashed(segment_input))
    /\ UNCHANGED api_vars
    /\ UNCHANGED completion_vars
    /\ UNCHANGED scan_vars

DashNext == DashTyped \/ ParseEnDash

DashSpec == ParseInit /\ [][DashNext]_vars

\* C18 as stated: parse treats the en-dash exactly like the ASCII hyphen:
\* replacing the '-' of an input by en-dashes does not change the returned
\* segment sequence ("1:2-3" with an en-dash parses to ChapterRange(1,2,3)).
C18_Original ==
    [][(segment_input' # segment_input /\ segment_input' = en_dashed(segment_input))
       => segments' = segments]_vars

C21_Original == Requested => state.kind # "Panic"

\* the last chapter match and the last verse match of the segment run
LastChapterMatch == Last(chapter_captures_iter(SegmentRun))

LastVerseMatch == Last(verse_captures_iter(SegmentRun))

\* C22 as stated: in infer_state a verse is trusted only when its match
\* starts after the last chapter match: when both start at the same offset,
\* or the last verse match starts before the last chapter match, that verse
\* number is not used as the verse anchor of the returned state.
C22_Original ==
    state.kind = "ChaptersOrVerses" =>
        LET run == SegmentRun
            chapter == LastChapterMatch
            verse == LastVerseMatch
            number == ParseUsize(SubSeq(run, verse.start, verse.end))
        IN  (verse.start <= chapter.start /\ number > 0) => state.verse # number

(***************************************************************************)
(* CompletionSegmentsState::parse (autocompletion.rs)                      *)
(***************************************************************************)
\* re::remove_incomplete_segments().replace(s, ""): the pattern
\* ((?:)(\d+:)|(\d+[\-...]))$ takes a trailing digit run with the ':' or
\* dash after it
remove_incomplete_segments_replace(s) ==
    LET runs == digit_runs_from(s, 1)
    IN  IF /\ s # <<>>
           /\ Last(s) \in {":", "-"} \cup MojibakeClass
           /\ runs # <<>>
           /\ Last(runs).end = Len(s) - 1
        THEN Prefix(s, Last(runs).start - 1)
        ELSE s

\* re::at_least_one_segment().is_match(s), the pattern \d+:\d+
at_least_one_segment_is_match(s) ==
    \E i \in 2..(Len(s) - 1) : s[i] = ":" /\ IsDigit(s[i - 1]) /\ IsDigit(s[i + 1])

\* get_last_chapter_and_verse: lines 437-474; the last arm returns
\* (Some(chapter), Some(chapter))
get_last_chapter_and_verse(input) ==
    LET chapters == chapter_captures_iter(input)
        verses == verse_captures_iter(input)
        chapter == Last(chapters)
        verse == Last(verses)
        number(m) == ParseUsize(SubSeq(input, m.start, m.end))
    IN  IF chapters = <<>> \/ verses = <<>> THEN [chapter |-> None, verse |-> None]
        ELSE IF chapter.start = verse.start THEN [chapter |-> number(chapter), verse |-> None]
        ELSE IF chapter.start > verse.start THEN [chapter |-> number(chapter), verse |-> None]
        ELSE [chapter |-> number(chapter), verse |-> number(chapter)]

\* CompletionSegmentsState::parse(segment_input)
CompletionSegmentsState_parse(input) ==
    LET full_segments_input == remove_incomplete_segments_replace(input)
        parsed == IF at_least_one_segment_is_match(input)
                  THEN parse_reference_segments(full_segments_input)
                  ELSE Returned(<<>>)
        last == get_last_chapter_and_verse(input)
    IN  IF parsed.panic THEN [called |-> TRUE, panic |-> TRUE]
        ELSE [called |-> TRUE,
              panic |-> FALSE,
              segments |-> parsed.segments,
              current_chapter |-> last.chapter,
              current_verse |-> last.verse,
              joiner |-> IF input # <<>> /\ Last(input) \in {"-", EnDash}
                         THEN "Range" ELSE "Break"]

\* longest segment text CompletionSegmentsState::parse is called on
MaxStateLen == 5

\* one more character of the segments is typed and the text is parsed
SegmentsStateTyped ==
    /\ Len(segment_input) < MaxStateLen
    /\ \E c \in SegChars :
          /\ segment_input' = Append(segment_input, c)
          /\ completion_segments' = CompletionSegmentsState_parse(segment_input')
    /\ UNCHANGED <<segments, relabel, reparsed, remembered, references>>
    /\ UNCHANGED server_vars
    /\ UNCHANGED api_vars
    /\ UNCHANGED completion_vars

SegmentsStateNext == SegmentsStateTyped

SegmentsStateSpec == ParseInit /\ [][SegmentsStateNext]_vars

\* C30 as stated: get_last_chapter_and_verse returns, whenever the last verse
\* match starts after the last chapter match, the number of the last chapter
\* match as the chapter and the number of the last verse match as the verse
\* (for "1:2-" it returns chapter 1 and verse 2).
C30_Original ==
    (completion_segments.called /\ ~completion_segments.panic) =>
        LET chapters == chapter_captures_iter(segment_input)
            verses == verse_captures_iter(segment_input)
            chapter == Last(chapters)
            verse == Last(verses)
        IN  /\ (chapters # <<>> /\ verses # <<>> /\ verse.start > chapter.start) =>
                  /\ completion_segments.current_chapter =
                        ParseUsize(SubSeq(segment_input, chapter.start, chapter.end))
                  /\ completion_segments.current_verse =
                        ParseUsize(SubSeq(segment_input, verse.start, verse.end))
            /\ segment_input = <<"1", ":", "2", "-">> =>
                  /\ completion_segments.current_chapter = 1
                  /\ completion_segments.current_verse = 2

(***************************************************************************)
(* Positions: calculate_position (bible_lsp.rs:25-100) and the newline     *)
(* indexes of find_book_references (bible_lsp.rs:256-263)                  *)
(***************************************************************************)
LF == "\n"
CR == "\r"

\* element i of a Vec, whose indexes start at 0
at(v, i) == v[i + 1]

\* the indexes i - 1 of the sequence s that hold c, in increasing order
RECURSIVE indexes_of(_, _, _)
indexes_of(s, c, i) ==
    IF i > Len(s) THEN <<>>
    ELSE IF s[i] = c THEN <<i - 1>> \o indexes_of(s, c, i + 1)
    ELSE indexes_of(s, c, i + 1)

\* lines 259-266: the characters other than '\r' are enumerated and the
\* indexes of the '\n' among them collected
newline_indexes_of(input) ==
    LET filtered == SelectSeq(input, LAMBDA ch : ch # CR)
    IN  indexes_of(filtered, LF, 1)

\* the Range of lines 28-37, 52-61 and 88-98
Range(line, start_character, end_character) ==
    [line |-> line, start_character |-> start_character, end_character |-> end_character]

\* `bottom = 1; top = len - 1; mid = top / bottom` with the midpoint as the
\* first probe
search_start_Midpoint(newline_indexes) ==
    LET bottom == 1
        top == Len(newline_indexes) - 1
    IN  [bottom |-> bottom, top |-> top, mid |-> bottom + ((top - bottom) \div 2)]

\* lines 67-69: the locals before the loop
search_start(newline_indexes) ==
    LET bottom == 1
        top == Len(newline_indexes) - 1
    IN  [bottom |-> bottom, top |-> top, mid |-> top \div bottom]

\* line 71: the loop condition
search_continues(s) == s.top # s.bottom

\* line 76: the test that breaks out of the loop
search_found(newline_indexes, start_index, s) ==
    /\ at(newline_indexes, s.mid - 1) < start_index
    /\ start_index < at(newline_indexes, s.mid)

\* lines 78-83: one iteration that does not break
search_step(newline_indexes, start_index, s) ==
    LET narrowed == IF start_index < at(newline_indexes, s.mid)
                    THEN [s EXCEPT !.top = s.mid]
                    ELSE [s EXCEPT !.bottom = s.mid]
    IN  [narrowed EXCEPT !.mid = narrowed.bottom + ((narrowed.top - narrowed.bottom) \div 2)]

\* lines 71-84: the loop, run to its end
RECURSIVE search_loop(_, _, _)
search_loop(newline_indexes, start_index, s) ==
    IF search_continues(s) /\ ~search_found(newline_indexes, start_index, s)
    THEN search_loop(newline_indexes, start_index,
                     search_step(newline_indexes, start_index, s))
    ELSE s

\* calculate_position(newline_indexes, start_index, end_index)
calculate_position(newline_indexes, start_index, end_index) ==
    IF Len(newline_indexes) = 0 \/ start_index < at(newline_indexes, 0)
    THEN Range(0, start_index, end_index)
    ELSE IF Last(newline_indexes) < start_index
    THEN LET line_start_index == Last(newline_indexes)
         IN  Range(Len(newline_indexes), start_index - 1 - line_start_index,
                   end_index - 1 - line_start_index)
    ELSE LET mid == search_loop(newline_indexes, start_index,
                                search_start(newline_indexes)).mid
             line_start_index == at(newline_indexes, mid - 1)
         IN  Range(mid, start_index - 1 - line_start_index,
                   end_index - 1 - line_start_index)

\* find_book_references(input) on a document of several lines: the start
\* and end index of every reference found (lines 313-315) and its Range (316)
book_reference_ranges(input, found) ==
    LET newline_indexes == newline_indexes_of(input)
    IN  [scanned |-> TRUE,
         input |-> input,
         start_indexes |-> [k \in 1..Len(found) |-> found[k].range.start],
         end_indexes |-> [k \in 1..Len(found) |-> found[k].range.end],
         ranges |-> [k \in 1..Len(found) |->
                        calculate_position(newline_indexes, found[k].range.start,
                                           found[k].range.end)]]

\* most lines of a scanned document
MaxLines == 4

\* the lines a document is made of
DocumentLines ==
    {<<>>,
     <<"x">>,
     <<"e", " ", "1", ":", "2">>,
     <<"x", " ", "j", " ", "1", ":", "1">>}

\* the line endings of a document
LineEndings == {<<LF>>, <<CR, LF>>}

\* the number of line endings in a document
LineCount(input) == Len(SelectSeq(input, LAMBDA ch : ch = LF))

PositionInit ==
    /\ segment_input = <<>>
    /\ segments = NoCall
    /\ relabel = <<>>
    /\ reparsed = NoCall
    /\ reference_array = SmallCorpus
    /\ overflow_checks = FALSE
    /\ api_call = NoQuery
    /\ NoDocument
    /\ NoScan

\* did_change appends a line ending and a line, and the document is scanned
AppendLineAndScan ==
    /\ LineCount(text) < MaxLines - 1
    /\ positions.scanned
    /\ \E ending \in LineEndings, line \in DocumentLines :
          /\ text' = text \o ending \o line
          /\ \E scan \in {find_book_references(text')} :
                positions' = book_reference_ranges(text', scan.found)
    /\ UNCHANGED <<typed, state, suggestions>>
    /\ UNCHANGED <<remembered, references, completion_segments, search, regex_cache,
                   documents, range_contents>>
    /\ UNCHANGED parse_vars
    /\ UNCHANGED api_vars

\* did_open stores a document of one line, and the document is scanned
OpenLineAndScan ==
    /\ ~positions.scanned
    /\ \E line \in DocumentLines :
          /\ text' = line
          /\ \E scan \in {find_book_references(text')} :
                positions' = book_reference_ranges(text', scan.found)
    /\ UNCHANGED <<typed, state, suggestions>>
    /\ UNCHANGED <<remembered, references, completion_segments, search, regex_cache,
                   documents, range_contents>>
    /\ UNCHANGED parse_vars
    /\ UNCHANGED api_vars

PositionNext == OpenLineAndScan \/ AppendLineAndScan

PositionSpec == PositionInit /\ [][PositionNext]_vars

\* the 0-based line of the character at 0-based offset i of the document
TrueLine(input, i) == Len(SelectSeq(Prefix(input, i), LAMBDA ch : ch = LF))

\* the 0-based column of the character at 0-based offset i of the document
TrueColumn(input, i) ==
    LET before == {n \in 1..i : input[n] = LF}
    IN  IF before = {} THEN i
        ELSE i - (CHOOSE n \in before : \A m \in before : m <= n)

\* C23 as stated: every returned reference has the true line and column of
\* the first character of its book name as start, and the column after its
\* last digit as end, with \n and with \r\n line endings.
C23_Original ==
    positions.scanned =>
        \A k \in 1..Len(positions.ranges) :
            LET range == positions.ranges[k]
                start_index == positions.start_indexes[k]
                end_index == positions.end_indexes[k]
            IN  /\ range.line = TrueLine(positions.input, start_index)
                /\ range.start_character = TrueColumn(positions.input, start_index)
                /\ range.end_character = TrueColumn(positions.input, end_index - 1) + 1

(***************************************************************************)
(* The binary search of calculate_position, one loop iteration per step    *)
(***************************************************************************)
\* largest newline offset of a searched list
MaxOffset == 8

\* most newline offsets of a searched list
MaxNewlines == 6

\* the strictly increasing sequence of the elements of a set of offsets
RECURSIVE increasing(_)
increasing(set) ==
    IF set = {} THEN <<>>
    ELSE LET least == CHOOSE n \in set : \A m \in set : n <= m
         IN  <<least>> \o increasing(set \ {least})

\* the strictly increasing lists of newline offsets
NewlineLists ==
    {increasing(set) : set \in {o \in SUBSET (0..MaxOffset) :
                                   Cardinality(o) \in 2..MaxNewlines}}

\* the start offsets strictly between the first and the last newline that
\* equal no newline offset
StartsBetween(newline_indexes) ==
    {i \in (at(newline_indexes, 0) + 1)..(Last(newline_indexes) - 1) :
        \A n \in 1..Len(newline_indexes) : newline_indexes[n] # i}

\* line 69 is reached: neither early return of lines 27 and 41 was taken
SearchInit ==
    /\ segment_input = <<>>
    /\ segments = NoCall
    /\ relabel = <<>>
    /\ reparsed = NoCall
    /\ reference_array = SmallCorpus
    /\ overflow_checks = FALSE
    /\ api_call = NoQuery
    /\ NoDocument
    /\ remembered = [state |-> NoRequest, suggestions |-> Ok(<<>>), between |-> FALSE]
    /\ references = [scanned |-> FALSE, panic |-> FALSE, found |-> <<>>]
    /\ completion_segments = [called |-> FALSE, panic |-> FALSE]
    /\ positions = NoPositions
    /\ regex_cache = NoCache
    /\ documents = NoStore
    /\ range_contents = NoContents
    /\ \E newline_indexes \in NewlineLists :
          \E start_index \in StartsBetween(newline_indexes) :
              search = [pc |-> "loop",
                        newline_indexes |-> newline_indexes,
                        start_index |-> start_index,
                        locals |-> search_start(newline_indexes)]

search_others ==
    <<segment_input, segments, relabel, reparsed, reference_array, overflow_checks,
      api_call, text, typed, state, suggestions, remembered, references,
      completion_segments, positions, regex_cache, documents, range_contents>>

\* line 71: `top != bottom` is false and the loop ends
SearchExit ==
    /\ search.pc = "loop"
    /\ ~search_continues(search.locals)
    /\ search' = [search EXCEPT !.pc = "done"]
    /\ UNCHANGED search_others

\* line 76: the break
SearchBreak ==
    /\ search.pc = "loop"
    /\ search_continues(search.locals)
    /\ search_found(search.newline_indexes, search.start_index, search.locals)
    /\ search' = [search EXCEPT !.pc = "done"]
    /\ UNCHANGED search_others

\* lines 78-83: an iteration that narrows the interval
SearchNarrow ==
    /\ search.pc = "loop"
    /\ search_continues(search.locals)
    /\ ~search_found(search.newline_indexes, search.start_index, search.locals)
    /\ search' = [search EXCEPT !.locals = search_step(search.newline_indexes,
                                                       search.start_index, search.locals)]
    /\ UNCHANGED search_others

SearchNext == SearchExit \/ SearchBreak \/ SearchNarrow

\* the thread that runs calculate_position keeps running
SearchSpec == SearchInit /\ [][SearchNext]_vars /\ WF_vars(SearchNext)

\* C28: for every strictly increasing list of newline offsets and every start
\* offset strictly between the first and the last that equals none of them,
\* the binary search of calculate_position terminates, and it stops at an
\* index mid with newline[mid-1] < start < newline[mid].
C28_SearchTerminates ==
    <>(/\ search.pc = "done"
       /\ search_found(search.newline_indexes, search.start_index, search.locals))

\* a search that ended at a probe below the first one after raising bottom
C28_Witness ==
    /\ search.pc = "done"
    /\ search.locals.bottom > 1
    /\ search.locals.mid < Len(search.newline_indexes) - 1
    /\ search_found(search.newline_indexes, search.start_index, search.locals)

(***************************************************************************)
(* BOOK_ABBREVIATION_REGEX_CACHE (bible_api.rs:30-31) and the calls of     *)
(* BibleAPI::book_abbreviation_regex (196-217) that share it               *)
(***************************************************************************)
\* the number of threads that call book_abbreviation_regex
NumCallers == 3

Callers == 1..NumCallers

\* the BibleAPI values the callers hold: the abbreviation code of the
\* translation and the keys of abbreviations_to_book_id
Apis ==
    {[abbreviation |-> "ESV", keys |-> BookKeys],
     [abbreviation |-> "KJV", keys |-> << <<"e">> >>]}

\* Vec<String>::join("|")
RECURSIVE join(_)
join(keys) ==
    IF keys = <<>> THEN <<>>
    ELSE IF Len(keys) = 1 THEN Head(keys)
    ELSE Head(keys) \o <<"|">> \o join(Tail(keys))

\* lines 203-213: the pattern compiled from the keys of the API
books_pattern(api) == join(api.keys)

\* the Mutex is taken whoever holds it
lock_available_Unguarded(cache_state) == TRUE

\* line 197: lock() returns when no other thread holds the Mutex
lock_available(cache_state) == cache_state.lock = 0

\* lines 198-200: the cached version is the abbreviation code of the API
cache_is_current(cache, api) == cache.some /\ cache.version = api.abbreviation

CacheInit ==
    /\ segment_input = <<>>
    /\ segments = NoCall
    /\ relabel = <<>>
    /\ reparsed = NoCall
    /\ reference_array = SmallCorpus
    /\ overflow_checks = FALSE
    /\ api_call = NoQuery
    /\ NoDocument
    /\ remembered = [state |-> NoRequest, suggestions |-> Ok(<<>>), between |-> FALSE]
    /\ references = [scanned |-> FALSE, panic |-> FALSE, found |-> <<>>]
    /\ completion_segments = [called |-> FALSE, panic |-> FALSE]
    /\ positions = NoPositions
    /\ search = NoSearch
    /\ documents = NoStore
    /\ range_contents = NoContents
    /\ regex_cache = [pc |-> "run",
                      lock |-> 0,
                      cache |-> [some |-> FALSE, version |-> "", pattern |-> <<>>],
                      calls |-> [c \in Callers |->
                                    [pc |-> "idle", api |-> CHOOSE a \in Apis : TRUE,
                                     result |-> <<>>]]]

cache_others ==
    <<segment_input, segments, relabel, reparsed, reference_array, overflow_checks,
      api_call, text, typed, state, suggestions, remembered, references,
      completion_segments, positions, search, documents, range_contents>>

\* a thread calls api.book_abbreviation_regex()
CallRegex(c) ==
    /\ regex_cache.calls[c].pc \in {"idle", "returned"}
    /\ \E api \in Apis :
          regex_cache' = [regex_cache EXCEPT !.calls[c] =
                             [pc |-> "lock", api |-> api, result |-> <<>>]]
    /\ UNCHANGED cache_others

\* line 197: the guard is taken
LockCache(c) ==
    /\ regex_cache.calls[c].pc = "lock"
    /\ lock_available(regex_cache)
    /\ regex_cache' = [regex_cache EXCEPT !.lock = c, !.calls[c].pc = "check"]
    /\ UNCHANGED cache_others

\* lines 198-202: the cached pattern is cloned
ReadCached(c) ==
    /\ regex_cache.calls[c].pc = "check"
    /\ cache_is_current(regex_cache.cache, regex_cache.calls[c].api)
    /\ regex_cache' = [regex_cache EXCEPT !.calls[c].pc = "return",
                                          !.calls[c].result = regex_cache.cache.pattern]
    /\ UNCHANGED cache_others

\* lines 198-200, 203: the test fails and the else branch is entered
MissCache(c) ==
    /\ regex_cache.calls[c].pc = "check"
    /\ ~cache_is_current(regex_cache.cache, regex_cache.calls[c].api)
    /\ regex_cache' = [regex_cache EXCEPT !.calls[c].pc = "build"]
    /\ UNCHANGED cache_others

\* lines 203-215: the pattern is compiled and stored with the code
RebuildCache(c) ==
    /\ regex_cache.calls[c].pc = "build"
    /\ LET api == regex_cache.calls[c].api
           pattern == books_pattern(api)
       IN  regex_cache' = [regex_cache EXCEPT
                              !.cache = [some |-> TRUE, version |-> api.abbreviation,
                                         pattern |-> pattern],
                              !.calls[c].pc = "return",
                              !.calls[c].result = pattern]
    /\ UNCHANGED cache_others

\* line 217: the function returns and the guard is dropped
ReturnRegex(c) ==
    /\ regex_cache.calls[c].pc = "return"
    /\ regex_cache' = [regex_cache EXCEPT
                          !.lock = IF regex_cache.lock = c THEN 0 ELSE regex_cache.lock,
                          !.calls[c].pc = "returned"]
    /\ UNCHANGED cache_others

CacheNext ==
    \E c \in Callers :
        \/ CallRegex(c)
        \/ LockCache(c)
        \/ ReadCached(c)
        \/ MissCache(c)
        \/ RebuildCache(c)
        \/ ReturnRegex(c)

CacheSpec == CacheInit /\ [][CacheNext]_vars

\* the pattern a call is about to return is the cached one, cached under the
\* abbreviation code of the caller's API
ReturnsCachedForCode ==
    \A c \in Callers :
        regex_cache.calls[c].pc = "return" =>
            /\ cache_is_current(regex_cache.cache, regex_cache.calls[c].api)
            /\ regex_cache.calls[c].result = regex_cache.cache.pattern

\* the cache is written only by the call that holds the guard, and only when
\* the cached code differs from the code of that call's API
RebuiltOnlyOnChange ==
    regex_cache'.cache # regex_cache.cache =>
        \E c \in Callers :
            /\ regex_cache.lock = c
            /\ regex_cache.calls[c].pc = "build"
            /\ ~cache_is_current(regex_cache.cache, regex_cache.calls[c].api)
            /\ cache_is_current(regex_cache'.cache, regex_cache.calls[c].api)

\* C24: under any interleaving of concurrent book_abbreviation_regex calls
\* the check of the cached key and the rebuild are one exclusive section: a
\* caller is returned the pattern cached for its abbreviation code, and the
\* pattern is rebuilt only by a call whose code differs from the cached code.
C24_ExclusiveCheckAndRebuild ==
    /\ [](regex_cache.pc = "run" => ReturnsCachedForCode)
    /\ [][RebuiltOnlyOnChange]_vars

\* a call returns the pattern another call cached, while a third call with
\* the other translation waits for the guard
C24_Witness ==
    /\ regex_cache.pc = "run"
    /\ \E c \in Callers, d \in Callers, e \in Callers :
          /\ regex_cache.calls[c].pc = "return"
          /\ regex_cache.calls[c].result = books_pattern(regex_cache.calls[c].api)
          /\ regex_cache.calls[d].pc = "returned"
          /\ regex_cache.calls[d].result = regex_cache.calls[c].result
          /\ regex_cache.calls[e].pc = "lock"
          /\ regex_cache.calls[e].api # regex_cache.calls[c].api

(***************************************************************************)
(* The document store (main.rs:55-56), did_open and did_change, and the    *)
(* requests that read it                                                   *)
(***************************************************************************)
\* the number of requests in flight
NumRequests == 2

Requests == 1..NumRequests

\* the handlers that call find_book_references on the stored text
ScanKinds == {"hover", "diagnostic", "definition", "code_action", "document_symbol"}

RequestKinds == ScanKinds \cup {"completion"}

\* the texts did_open and did_change store (documents of one line)
StoredTexts ==
    {<<"x">>,
     <<"e", " ", "1", ":", "2">>,
     <<"j", " ", "1", ":", "1", " ", "e", " ", "2", ":", "1">>}

\* the scan of a request reads the store again
scanned_text_Store(request, store) == store.text

\* lines 122-127 (161-166, 242-247, 282-287, 372-377, 560-565): the scan
\* reads the String cloned out of the store
scanned_text(request, store) == request.text

\* lines 298-321 of find_book_references: the references built for matches
references_built(input, matches) ==
    LET found == book_references_from(input, matches, 1)
    IN  IF \E k \in 1..Len(found) : found[k].panic
        THEN [scanned |-> TRUE, panic |-> TRUE, found |-> <<>>]
        ELSE [scanned |-> TRUE, panic |-> FALSE,
              found |-> [k \in 1..Len(found) |->
                            [book_id |-> found[k].book_id, range |-> found[k].range,
                             segments |-> found[k].segments]]]

\* main.rs:183-188: the last book match before the cursor
last_book_match(text_before_cursor) ==
    LET matches == book_abbreviation_regex_find_iter(text_before_cursor)
    IN  IF matches = <<>> THEN [some |-> FALSE] ELSE [some |-> TRUE, at |-> Last(matches)]

StoreInit ==
    /\ segment_input = <<>>
    /\ segments = NoCall
    /\ relabel = <<>>
    /\ reparsed = NoCall
    /\ reference_array = SmallCorpus
    /\ overflow_checks = FALSE
    /\ api_call = NoQuery
    /\ NoDocument
    /\ remembered = [state |-> NoRequest, suggestions |-> Ok(<<>>), between |-> FALSE]
    /\ references = [scanned |-> FALSE, panic |-> FALSE, found |-> <<>>]
    /\ completion_segments = [called |-> FALSE, panic |-> FALSE]
    /\ positions = NoPositions
    /\ search = NoSearch
    /\ regex_cache = NoCache
    /\ range_contents = NoContents
    /\ documents = [pc |-> "run",
                    store |-> [some |-> FALSE, text |-> <<>>],
                    requests |-> [r \in Requests |-> [pc |-> "idle"]]]

store_others ==
    <<segment_input, segments, relabel, reparsed, reference_array, overflow_checks,
      api_call, text, typed, state, suggestions, remembered, references,
      completion_segments, positions, search, regex_cache, range_contents>>

\* did_open: the text is inserted under the write lock
DidOpen ==
    /\ ~documents.store.some
    /\ \E opened \in StoredTexts :
          documents' = [documents EXCEPT !.store = [some |-> TRUE, text |-> opened]]
    /\ UNCHANGED store_others

\* did_change with one content change (full sync): the text is replaced
DidChange ==
    /\ documents.store.some
    /\ \E changed \in StoredTexts :
          documents' = [documents EXCEPT !.store = [some |-> TRUE, text |-> changed]]
    /\ UNCHANGED store_others

\* the start of a handler: the text is cloned under the read lock, and
\* `expect("It should be in the map")` panics when the document is not stored
ReadStore(r) ==
    /\ documents.requests[r].pc \in {"idle", "replied"}
    /\ \E kind \in RequestKinds :
          documents' = [documents EXCEPT !.requests[r] =
                           IF documents.store.some
                           THEN [pc |-> "read", kind |-> kind,
                                 text |-> documents.store.text]
                           ELSE [pc |-> "panic"]]
    /\ UNCHANGED store_others

\* find_book_references, lines 269-291: the book matches of the input
FindBookMatches(r) ==
    /\ documents.requests[r].pc = "read"
    /\ documents.requests[r].kind \in ScanKinds
    /\ LET request == documents.requests[r]
           input == scanned_text(request, documents.store)
       IN  documents' = [documents EXCEPT !.requests[r] =
                            [pc |-> "matched", kind |-> request.kind, text |-> request.text,
                             matches |-> book_abbreviation_regex_find_iter(input)]]
    /\ UNCHANGED store_others

\* find_book_references, lines 298-321: the references of the matches
BuildReferences(r) ==
    /\ documents.requests[r].pc = "matched"
    /\ LET request == documents.requests[r]
           input == scanned_text(request, documents.store)
       IN  documents' = [documents EXCEPT !.requests[r] =
                            [pc |-> "replied", kind |-> request.kind, text |-> request.text,
                             result |-> references_built(input, request.matches)]]
    /\ UNCHANGED store_others

\* completion, lines 167-188, with the cursor at the end of the line
CompleteStored(r) ==
    /\ documents.requests[r].pc = "read"
    /\ documents.requests[r].kind = "completion"
    /\ LET request == documents.requests[r]
           text_before_cursor == scanned_text(request, documents.store)
       IN  documents' = [documents EXCEPT !.requests[r] =
                            [pc |-> "replied", kind |-> request.kind, text |-> request.text,
                             result |-> [state |-> parse_current_state(text_before_cursor),
                                         book_match |-> last_book_match(text_before_cursor)]]]
    /\ UNCHANGED store_others

StoreNext ==
    \/ DidOpen
    \/ DidChange
    \/ \E r \in Requests :
          \/ ReadStore(r)
          \/ FindBookMatches(r)
          \/ BuildReferences(r)
          \/ CompleteStored(r)

StoreSpec == StoreInit /\ [][StoreNext]_vars

\* what a request of a kind reports for a text
Reported(kind, snapshot) ==
    IF kind = "completion"
    THEN [state |-> parse_current_state(snapshot), book_match |-> last_book_match(snapshot)]
    ELSE find_book_references(snapshot)

\* C25: each request (hover, diagnostic, definition, code action, document
\* symbol, completion) reports what one snapshot of the document holds, the
\* text that was stored when the request read the store, even when did_change
\* replaces the stored text while the request runs.
C25_OneSnapshot ==
    documents.pc = "run" =>
        \A r \in Requests :
            documents.requests[r].pc = "replied" =>
                documents.requests[r].result =
                    Reported(documents.requests[r].kind, documents.requests[r].text)

\* a request has replied with references after the stored text was replaced
\* by a text with other references
C25_Witness ==
    /\ documents.pc = "run"
    /\ \E r \in Requests :
          /\ documents.requests[r].pc = "replied"
          /\ documents.requests[r].kind \in ScanKinds
          /\ documents.requests[r].text # documents.store.text
          /\ documents.requests[r].result.found # <<>>
          /\ documents.requests[r].result # find_book_references(documents.store.text)

(***************************************************************************)
(* The content of a segment: BookReference::format_content                 *)
(* (book_reference.rs:55-72), the same loops in lsp_preview                *)
(* (autocompletion.rs:379-395) and get_bible_range_contents                *)
(* (bible_api.rs:164-181)                                                  *)
(***************************************************************************)
\* BibleAPI::get_bible_contents: bible_contents has the shape of
\* reference_array, and the content of a verse is named by its chapter and
\* verse
get_bible_contents(ra, checks, book, chapter, verse) ==
    LET b == wrapping_minus_one(book)
        c == wrapping_minus_one(chapter)
        v == wrapping_minus_one(verse)
    IN  IF minus_one_aborts(book, checks) THEN Abort
        ELSE IF ~vec_has(ra, b) THEN Ok([some |-> FALSE])
        ELSE IF minus_one_aborts(chapter, checks) THEN Abort
        ELSE IF ~vec_has(ra[b + 1], c) THEN Ok([some |-> FALSE])
        ELSE IF minus_one_aborts(verse, checks) THEN Abort
        ELSE IF ~(v >= 0 /\ v < ra[b + 1][c + 1]) THEN Ok([some |-> FALSE])
        ELSE Ok([some |-> TRUE, chapter |-> chapter, verse |-> verse])

\* the inner loop `for verse in start_verse..=end_verse` from verse on
RECURSIVE verses_content(_, _, _, _, _, _)
verses_content(ra, checks, book_id, chapter, verse, end_verse) ==
    IF verse > end_verse THEN Ok(<<>>)
    ELSE LET content == get_bible_contents(ra, checks, book_id, chapter, verse)
             rest == verses_content(ra, checks, book_id, chapter, verse + 1, end_verse)
         IN  IF content.abort \/ rest.abort THEN Abort
             ELSE IF ~content.value.some THEN rest
             ELSE Ok(<<<<content.value.chapter, content.value.verse>>>> \o rest.value)

\* the outer loop `for chapter in start_chapter..=end_chapter` from chapter on
RECURSIVE chapters_content(_, _, _, _, _, _, _)
chapters_content(ra, checks, book_id, chapter, end_chapter, start_verse, end_verse) ==
    IF chapter > end_chapter THEN Ok(<<>>)
    ELSE LET this == verses_content(ra, checks, book_id, chapter, start_verse, end_verse)
             rest == chapters_content(ra, checks, book_id, chapter + 1, end_chapter,
                                      start_verse, end_verse)
         IN  IF this.abort \/ rest.abort THEN Abort
             ELSE Ok(this.value \o rest.value)

\* the closure of format_content for one segment: the [chapter:verse] lines
format_content(ra, checks, book_id, seg) ==
    chapters_content(ra, checks, book_id, get_starting_chapter(seg), get_ending_chapter(seg),
                     get_starting_verse(seg), get_ending_verse(seg))

RangeInit ==
    /\ segment_input = <<>>
    /\ segments = NoCall
    /\ relabel = <<>>
    /\ reparsed = NoCall
    /\ reference_array \in Corpora
    /\ overflow_checks \in BOOLEAN
    /\ api_call = NoQuery
    /\ NoDocument
    /\ NoScan

\* the content of a BookRange segment of an existing book is rendered
RenderBookRange ==
    /\ \E book_id \in 1..Len(reference_array) :
          \E start_chapter \in 1..MaxChapter, end_chapter \in 1..MaxChapter,
             start_verse \in 1..MaxVerse, end_verse \in 1..MaxVerse :
              /\ start_chapter < end_chapter
              /\ LET seg == BookRange(start_chapter, end_chapter, start_verse, end_verse)
                 IN  range_contents' =
                         [called |-> TRUE, book_id |-> book_id, seg |-> seg,
                          content |-> format_content(reference_array, overflow_checks,
                                                     book_id, seg)]
    /\ UNCHANGED <<remembered, references, completion_segments, positions, search,
                   regex_cache, documents>>
    /\ UNCHANGED parse_vars
    /\ UNCHANGED api_vars
    /\ UNCHANGED completion_vars

RangeNext == RenderBookRange

RangeSpec == RangeInit /\ [][RangeNext]_vars

\* the verses of a book that exist from (start_chapter, start_verse) through
\* (end_chapter, end_verse), in corpus order
VersesThrough(book, start_chapter, start_verse, end_chapter, end_verse) ==
    LET inside(c, v) ==
            /\ c \in 1..Len(book)
            /\ v \in 1..book[c]
            /\ (c > start_chapter \/ (c = start_chapter /\ v >= start_verse))
            /\ (c < end_chapter \/ (c = end_chapter /\ v <= end_verse))
        pairs == {<<c, v>> \in (1..MaxChapter) \X (1..MaxVerse) : inside(c, v)}
        before(p, q) == p[1] < q[1] \/ (p[1] = q[1] /\ p[2] < q[2])
    IN  [n \in 1..Cardinality(pairs) |->
            CHOOSE p \in pairs : Cardinality({q \in pairs : before(q, p)}) = n - 1]

\* C26 as stated: the content rendered for a BookRange segment lists every
\* existing verse from (start_chapter, start_verse) through (end_chapter,
\* end_verse) in corpus order, also when start_verse is greater than end_verse.
C26_Original ==
    range_contents.called =>
        /\ ~range_contents.content.abort
        /\ range_contents.content.value =
               VersesThrough(reference_array[range_contents.book_id],
                             range_contents.seg.start_chapter,
                             range_contents.seg.start_verse,
                             range_contents.seg.end_chapter,
                             range_contents.seg.end_verse)

\* the number a label ends with is n
LabelEndsWith(chars, n) ==
    LET digits == FormatUsize(n)
        before == Len(chars) - Len(digits)
    IN  /\ before >= 0
        /\ Suffix(chars, before + 1) = digits
        /\ (before >= 1 => ~IsDigit(chars[before]))

\* C27 as stated: the candidates generated from one VersesOnly or
\* ChaptersOrVerses state have pairwise different labels, and the label of
\* each Verse candidate names that candidate's own verse.
C27_Original ==
    (Requested /\ ~suggestions.abort /\ state.kind \in {"VersesOnly", "ChaptersOrVerses"}) =>
        /\ \A i \in 1..Len(suggestions.value), j \in 1..Len(suggestions.value) :
              i # j => BibleCompletion_label(suggestions.value[i])
                           # BibleCompletion_label(suggestions.value[j])
        /\ \A c \in VerseCandidates :
              /\ ~BibleCompletion_label(c).abort
              /\ LabelEndsWith(BibleCompletion_label(c).value, c.verse)

\* C29: every ChaptersOrVerses state the inference returns carries at least
\* one segment, and so does every Verse candidate generated from it; the
\* label of a candidate with operator Through therefore never fails on a
\* missing last segment.
C29_ThroughHasLastSegment ==
    (Requested /\ state.kind = "ChaptersOrVerses") =>
        /\ state.segments # <<>>
        /\ \A c \in VerseCandidates :
              /\ c.segments = state.segments
              /\ c.operator = "Through" =>
                    /\ labelled_segments(c).ok
                    /\ ~BibleCompletion_label(c).abort

\* a Through state with one segment and a Verse candidate labelled from it
C29_Witness ==
    /\ Requested
    /\ state.kind = "ChaptersOrVerses"
    /\ state.operator = "Through"
    /\ Len(state.segments) = 1
    /\ \E c \in VerseCandidates :
          /\ c.operator = "Through"
          /\ Last(labelled_segments(c).segments).type = "ChapterRange"
          /\ Last(labelled_segments(c).segments).end_verse = c.verse

====
